---- MODULE Spec2Model ----
(***************************************************************************)
(* State-machine model of the wallet dashboard's asset-loading component   *)
(* (src/components/WalletAssets.js) together with the two places its       *)
(* results go: the App's userAssets and the WalletContext's net worth.     *)
(*                                                                         *)
(* Modelling conventions                                                   *)
(*  - JavaScript strings are TLA+ strings; balances are the decimal        *)
(*    strings produced by ethers' formatEther/formatUnits ('Error' on      *)
(*    failure) and parseFloat turns them back into numbers or NaN.         *)
(*  - Amounts are whole token units (token decimals are not modelled).     *)
(*  - Time is counted in minutes; Date.now() is the variable now.          *)
(*  - JSON.stringify/JSON.parse of the cached values (strings and finite   *)
(*    numbers only) returns an equal value, so sessionStorage holds the    *)
(*    values themselves.                                                   *)
(*  - One mounted WalletAssets instance is followed from its mount on.     *)
(*    Each asynchronous continuation is one atomic action; a re-render     *)
(*    with changed effect dependencies is followed by RunEffect before     *)
(*    anything else happens.                                               *)
(*  - The price proxy (scripts/fetch-coinmarketcap-api.js) and the         *)
(*    components LendingData, StakingData, PortfolioOptimizer,             *)
(*    InvestmentOpportunities and WalletSymbols are processes of their own *)
(*    with their own variables and clocks; each has its own specification  *)
(*    (SpecLimiter, SpecProxy, SpecBusy, SpecLending, SpecStaking,         *)
(*    SpecOptimizer, SpecTabs, SpecSymbols; SpecClassify for               *)
(*    processTokenTransactions alone) in which the others do not move.     *)
(***************************************************************************)
EXTENDS Integers, Sequences, FiniteSets, TLC

(***************************************************************************)
(* Bounds of the model                                                     *)
(***************************************************************************)
MaxLoads == 3
MaxTime == 2
MaxFailures == 1
MaxVisits == 4         \* loads of a user who waits for each load to end
MaxClock == 5          \* minutes such a user stays
MaxProxyTime == 5      \* minutes the price proxy is followed
MaxProxyRequests == 2  \* price requests the proxy receives
MaxPools == 2          \* pools in one answer of the yield API
MaxMounts == 2         \* times the lending component is mounted
MaxLendingTime == 16   \* minutes the lending component is followed
MaxTxs == 3            \* transactions in a list handed to processTokenTransactions
MaxSymbolRuns == 3     \* runs of the WalletSymbols effect
MaxSymbolsTime == 3    \* minutes on the clock of WalletSymbols
MaxClicks == 3         \* tab clicks on InvestmentOpportunities
MaxTabMounts == 3      \* mounts of InvestmentOpportunities
MaxHeld == 2           \* assets handed to PortfolioOptimizer
MaxStats == 2          \* entries in one answer of the staking statistics
MaxStakingFetches == 2 \* times StakingData fetches

(***************************************************************************)
(* Program constants (minutes)                                             *)
(***************************************************************************)
CACHE_EXPIRY == 5
ETH_CACHE_TTL == 2
PRICE_CACHE_TTL == 2
TOKEN_BATCH_SIZE == 5
PRICE_BATCH_SIZE == 3
\* scripts/fetch-coinmarketcap-api.js, minutes
CACHE_DURATION == 5
RATE_LIMIT_WINDOW == 1
MAX_REQUESTS_PER_WINDOW == 25
\* LendingData: minutes; APYs are counted in hundredths
LENDING_CACHE_TTL == 15
SYMBOLS_CACHE_TTL == 2        \* minutes a wallet-symbols-price-cache entry is used
batchSize == 5                \* symbols per request of WalletSymbols
MIN_APY == 1
undefined == -2
NaN == -1

(***************************************************************************)
(* The world outside the browser: what the chain, the transaction index    *)
(* and the price proxy answer when a request succeeds.                     *)
(***************************************************************************)
WalletA == "0xa1"
WalletB == "0xb2"
Wallets == {WalletA, WalletB}

\* a wallet with more tokens than one balance batch holds
WalletC == "0xc3"
AllWallets == Wallets \cup {WalletC}

\* Etherscan tokentx result for a wallet (sort=desc), status '1'
EtherscanResult(wallet) ==
  IF wallet = WalletA
  THEN << [contractAddress |-> "0xAA", tokenSymbol |-> "USDC", tokenName |-> "USD Coin"],
          [contractAddress |-> "0xBB", tokenSymbol |-> "Visit WWW.X.IO", tokenName |-> "Airdrop"],
          [contractAddress |-> "0xaa", tokenSymbol |-> "USDC", tokenName |-> "USD Coin"],
          [contractAddress |-> "", tokenSymbol |-> "NONE", tokenName |-> "No contract"],
          [contractAddress |-> "0xCC", tokenSymbol |-> " ", tokenName |-> "Blank"],
          [contractAddress |-> "0xDD", tokenSymbol |-> "DAI", tokenName |-> ""] >>
  ELSE IF wallet = WalletC
  THEN << [contractAddress |-> "0x71", tokenSymbol |-> "PEPE", tokenName |-> "Pepe"],
          [contractAddress |-> "0x72", tokenSymbol |-> "LINK", tokenName |-> "Chainlink"],
          [contractAddress |-> "0x73", tokenSymbol |-> "SHIB", tokenName |-> "Shiba Inu"],
          [contractAddress |-> "0x74", tokenSymbol |-> "USDC", tokenName |-> "USD Coin"],
          [contractAddress |-> "0x75", tokenSymbol |-> "WBTC", tokenName |-> "Wrapped BTC"],
          [contractAddress |-> "0x76", tokenSymbol |-> "DAI", tokenName |-> "Dai"] >>
  ELSE << [contractAddress |-> "0xDD", tokenSymbol |-> "DAI", tokenName |-> "Dai"],
          [contractAddress |-> "0xEE", tokenSymbol |-> "GEM", tokenName |-> "CLAIM AT T.ME/GEM"],
          [contractAddress |-> "0xFF", tokenSymbol |-> "LINK", tokenName |-> "Chainlink"],
          [contractAddress |-> "0x99", tokenSymbol |-> "UNI", tokenName |-> "Uniswap"] >>

\* every string the outside world hands to the component
KnownStrings ==
  UNION { UNION { { EtherscanResult(w)[i].contractAddress, EtherscanResult(w)[i].tokenSymbol,
                    EtherscanResult(w)[i].tokenName } : i \in 1..Len(EtherscanResult(w)) } :
          w \in AllWallets }
    \cup {"ETH", "Ethereum", "Error", "0", "1", "2", "3"}

\* provider.getBalance(wallet), in ether
ChainEthBalance(wallet) == IF wallet = WalletA THEN 2 ELSE 1

\* contract.balanceOf(wallet) of the token contract, in token units
ChainTokenBalance(wallet, tokenAddress) ==
  IF wallet = WalletA /\ tokenAddress = "0xaa" THEN 3
  ELSE IF wallet = WalletA /\ tokenAddress = "0xdd" THEN 1
  ELSE IF wallet = WalletB /\ tokenAddress = "0xdd" THEN 2
  ELSE IF wallet = WalletC
    THEN (IF tokenAddress = "0x74" THEN 2 ELSE IF tokenAddress = "0x73" THEN 1 ELSE 0)
  ELSE 5

\* quote of the price proxy for a symbol
ProxyPrice(symbol) ==
  IF symbol = "ETH" THEN 2 ELSE IF symbol = "DAI" THEN 2 ELSE 1

(***************************************************************************)
(* Strings                                                                 *)
(***************************************************************************)
Uppers == "ABCDEFGHIJKLMNOPQRSTUVWXYZ"
Lowers == "abcdefghijklmnopqrstuvwxyz"
Digits == "0123456789"

CharAt(s, i) == SubSeq(s, i, i)

IndexIn(c, alphabet) ==
  IF \E i \in 1..Len(alphabet) : CharAt(alphabet, i) = c
  THEN CHOOSE i \in 1..Len(alphabet) : CharAt(alphabet, i) = c
  ELSE 0

RECURSIVE lowerCased(_)
lowerCased(s) ==
  IF Len(s) = 0 THEN ""
  ELSE LET c == CharAt(s, 1)
           k == IndexIn(c, Uppers)
       IN (IF k = 0 THEN c ELSE CharAt(Lowers, k)) \o lowerCased(SubSeq(s, 2, Len(s)))

\* String.prototype.toLowerCase (the known strings are converted once)
LowerCaseTable == [s \in KnownStrings |-> lowerCased(s)]
toLowerCase(s) == IF s \in KnownStrings THEN LowerCaseTable[s] ELSE lowerCased(s)

RECURSIVE upperCased(_)
upperCased(s) ==
  IF Len(s) = 0 THEN ""
  ELSE LET c == CharAt(s, 1)
           k == IndexIn(c, Lowers)
       IN (IF k = 0 THEN c ELSE CharAt(Uppers, k)) \o upperCased(SubSeq(s, 2, Len(s)))

\* String.prototype.toUpperCase
toUpperCase(s) == upperCased(s)

includes(s, p) ==
  \E i \in 1..(Len(s) - Len(p) + 1) : SubSeq(s, i, i + Len(p) - 1) = p

RECURSIVE trimmed(_)
trimmed(s) ==
  IF Len(s) = 0 THEN ""
  ELSE IF CharAt(s, 1) = " " THEN trimmed(SubSeq(s, 2, Len(s)))
  ELSE IF CharAt(s, Len(s)) = " " THEN trimmed(SubSeq(s, 1, Len(s) - 1))
  ELSE s

\* String.prototype.trim
TrimTable == [s \in KnownStrings |-> trimmed(s)]
trim(s) == IF s \in KnownStrings THEN TrimTable[s] ELSE trimmed(s)

\* ethers.formatEther / formatUnits on a whole amount: its decimal string
RECURSIVE formatUnits(_)
formatUnits(n) ==
  IF n < 10 THEN CharAt(Digits, n + 1)
  ELSE formatUnits(n \div 10) \o CharAt(Digits, (n % 10) + 1)

\* parseFloat: the number a decimal string denotes, NaN for anything else
RECURSIVE parseDigits(_, _)
parseDigits(s, acc) ==
  IF Len(s) = 0 THEN acc
  ELSE LET k == IndexIn(CharAt(s, 1), Digits)
       IN IF k = 0 THEN acc ELSE parseDigits(SubSeq(s, 2, Len(s)), 10 * acc + (k - 1))

parsedFloat(s) ==
  LET t == trimmed(s)
  IN IF Len(t) = 0 \/ IndexIn(CharAt(t, 1), Digits) = 0 THEN NaN ELSE parseDigits(t, 0)

ParseFloatTable == [s \in KnownStrings |-> parsedFloat(s)]
parseFloat(s) == IF s \in KnownStrings THEN ParseFloatTable[s] ELSE parsedFloat(s)

isNaN(x) == x = NaN

\* JavaScript multiplication and addition on the numbers of the model
Times(a, b) == IF isNaN(a) \/ isNaN(b) THEN NaN ELSE a * b
Plus(a, b) == IF isNaN(a) \/ isNaN(b) THEN NaN ELSE a + b

\* truthiness of a number: 0 and NaN are falsy
Truthy(x) == ~isNaN(x) /\ x # 0

(***************************************************************************)
(* URL pattern detection                                                   *)
(***************************************************************************)
URL_PATTERN_REGEX ==
  { "http", "https", "www.", ".com", ".net", ".org", ".io", ".xyz", ".eth",
    ".app", ".finance", ".exchange", ".crypto", "://", ".me", ".co", ".site",
    ".info", "url=", "link=", "website", "telegram", "twitter", "discord",
    "t.me/", "github" }

\* URL_PATTERN_REGEX.test(str), the regex carrying the i flag
matchesUrlPattern(str) ==
  IF Len(str) = 0 THEN FALSE
  ELSE LET lower == lowerCased(str)
       IN \E p \in URL_PATTERN_REGEX : includes(lower, p)

UrlPatternTable == [s \in KnownStrings |-> matchesUrlPattern(s)]

\* the pattern test without the i flag
containsUrlPatternCaseSensitive(str) ==
  IF Len(str) = 0 THEN FALSE ELSE \E p \in URL_PATTERN_REGEX : includes(str, p)

containsUrlPattern(str) ==
  IF str \in KnownStrings THEN UrlPatternTable[str] ELSE matchesUrlPattern(str)

hasSymbol(sym) == Len(sym) > 0 /\ trim(sym) # ""

(***************************************************************************)
(* Sequence helpers                                                        *)
(***************************************************************************)
Range(s) == { s[i] : i \in 1..Len(s) }

\* [...new Set(list)]: first occurrences, in order
RECURSIVE uniqueInOrder(_)
uniqueInOrder(s) ==
  IF s = <<>> THEN <<>>
  ELSE LET init == uniqueInOrder(SubSeq(s, 1, Len(s) - 1))
           last == s[Len(s)]
       IN IF last \in Range(init) THEN init ELSE Append(init, last)

(***************************************************************************)
(* Rate-limit detection on a caught error [message, status]                *)
(***************************************************************************)
\* the error axios or fetchTokenData's own status check raises, per outcome
EtherscanError(outcome) ==
  IF outcome = "http429" THEN [message |-> "Request failed with status code 429", status |-> 429]
  ELSE IF outcome = "timeout" THEN [message |-> "timeout of 10000ms exceeded", status |-> 0]
  ELSE [message |-> "Etherscan API error: NOTOK", status |-> 0]

messageIsRateLimit(message) ==
  \/ includes(message, "rate limit")
  \/ includes(message, "too many requests")
  \/ includes(message, "429")

\* every caught error taken for a rate limit
isRateLimitErrorAlways(err) == TRUE

isRateLimitError(err) == messageIsRateLimit(err.message) \/ err.status = 429

(***************************************************************************)
(* processTokenTransactions                                                *)
(***************************************************************************)
\* the loop that looks at the symbol before it looks for URL patterns
RECURSIVE processLoopSymbolFirst(_, _, _)
processLoopSymbolFirst(tokenTxs, processedAddresses, acc) ==
  IF tokenTxs = <<>> THEN acc
  ELSE
    LET tx == Head(tokenTxs)
        rest == Tail(tokenTxs)
        tokenAddress == toLowerCase(tx.contractAddress)
        containsUrl == containsUrlPattern(tx.tokenSymbol) \/ containsUrlPattern(tx.tokenName)
        seen == processedAddresses \cup {tokenAddress}
    IN IF tx.contractAddress = "" THEN processLoopSymbolFirst(rest, processedAddresses, acc)
       ELSE IF tokenAddress \in processedAddresses
         THEN processLoopSymbolFirst(rest, processedAddresses, acc)
       ELSE IF ~hasSymbol(tx.tokenSymbol)
         THEN processLoopSymbolFirst(rest, seen, [acc EXCEPT !.symbolFiltered = @ + 1])
       ELSE IF containsUrl
         THEN processLoopSymbolFirst(rest, seen, [acc EXCEPT !.urlFiltered = @ + 1])
       ELSE processLoopSymbolFirst(rest, seen,
                [acc EXCEPT !.uniqueTokens = Append(@,
                   [key |-> tokenAddress,
                    address |-> tx.contractAddress,
                    symbol |-> tx.tokenSymbol,
                    name |-> IF tx.tokenName = "" THEN tx.tokenSymbol ELSE tx.tokenName])])

RECURSIVE processLoop(_, _, _)
processLoop(tokenTxs, processedAddresses, acc) ==
  IF tokenTxs = <<>> THEN acc
  ELSE
    LET tx == Head(tokenTxs)
        rest == Tail(tokenTxs)
        tokenAddress == toLowerCase(tx.contractAddress)
        containsUrl == containsUrlPattern(tx.tokenSymbol) \/ containsUrlPattern(tx.tokenName)
    IN IF tx.contractAddress = "" THEN processLoop(rest, processedAddresses, acc)
       ELSE IF tokenAddress \in processedAddresses THEN processLoop(rest, processedAddresses, acc)
       ELSE IF containsUrl
         THEN processLoop(rest, processedAddresses \cup {tokenAddress},
                          [acc EXCEPT !.urlFiltered = @ + 1])
       ELSE IF hasSymbol(tx.tokenSymbol)
         THEN processLoop(rest, processedAddresses \cup {tokenAddress},
                [acc EXCEPT !.uniqueTokens = Append(@,
                   [key |-> tokenAddress,
                    address |-> tx.contractAddress,
                    symbol |-> tx.tokenSymbol,
                    name |-> IF tx.tokenName = "" THEN tx.tokenSymbol ELSE tx.tokenName])])
       ELSE processLoop(rest, processedAddresses \cup {tokenAddress},
                        [acc EXCEPT !.symbolFiltered = @ + 1])

\* returns uniqueTokens (in insertion order, each with its lower-cased key)
\* and the counters handed to setFilteredTokens
processTokenTransactions(tokenTxs) ==
  processLoop(tokenTxs, {}, [uniqueTokens |-> <<>>, urlFiltered |-> 0, symbolFiltered |-> 0])

hasToken(uniqueTokens, key) == \E i \in 1..Len(uniqueTokens) : uniqueTokens[i].key = key

tokenAt(uniqueTokens, key) ==
  uniqueTokens[CHOOSE i \in 1..Len(uniqueTokens) : uniqueTokens[i].key = key]

(***************************************************************************)
(* fetchTokenBalances: request order                                       *)
(***************************************************************************)
priorityTokens == <<"USDC", "USDT", "DAI", "WETH", "WBTC", "LINK">>

\* Array.indexOf, 0-based, -1 when absent
indexOf(list, x) ==
  IF \E i \in 1..Len(list) : list[i] = x
  THEN (CHOOSE i \in 1..Len(list) : list[i] = x /\ \A j \in 1..(i - 1) : list[j] # x) - 1
  ELSE -1

\* the comparator without its two one-sided branches
priorityCompareListedOnly(tokenA, tokenB) ==
  LET priorityA == indexOf(priorityTokens, tokenA.symbol)
      priorityB == indexOf(priorityTokens, tokenB.symbol)
  IN IF priorityA # -1 /\ priorityB # -1 THEN priorityA - priorityB ELSE 0

priorityCompare(tokenA, tokenB) ==
  LET priorityA == indexOf(priorityTokens, tokenA.symbol)
      priorityB == indexOf(priorityTokens, tokenB.symbol)
  IN IF priorityA # -1 /\ priorityB # -1 THEN priorityA - priorityB
     ELSE IF priorityA # -1 THEN -1
     ELSE IF priorityB # -1 THEN 1
     ELSE 0

\* stable insertion of x: before the first element it is strictly smaller than
RECURSIVE insertByPriority(_, _)
insertByPriority(sorted, x) ==
  IF sorted = <<>> THEN <<x>>
  ELSE IF priorityCompare(x, Head(sorted)) < 0 THEN <<x>> \o sorted
  ELSE <<Head(sorted)>> \o insertByPriority(Tail(sorted), x)

\* [...tokenAddresses].sort(by priority), as a list of tokens
RECURSIVE sortByPriority(_)
sortByPriority(tokens) ==
  IF tokens = <<>> THEN <<>>
  ELSE insertByPriority(sortByPriority(SubSeq(tokens, 1, Len(tokens) - 1)), tokens[Len(tokens)])

(***************************************************************************)
(* fetchAssets: filtering and valuation                                    *)
(***************************************************************************)
isValidBalance(token) ==
  /\ ~token.error
  /\ parseFloat(token.balance) > 0
  /\ token.symbol # ""
  /\ trim(token.symbol) # ""
  /\ ~containsUrlPattern(token.symbol)
  /\ ~containsUrlPattern(token.name)

validBalancesOf(tokenBalances) == SelectSeq(tokenBalances, isValidBalance)

\* the price lookup without its default of 0
priceOfNoDefault(prices, symbol) == IF symbol \in DOMAIN prices THEN prices[symbol].price ELSE NaN

priceOf(prices, symbol) == IF symbol \in DOMAIN prices THEN prices[symbol].price ELSE 0

ethRecord(ethBalance, prices) ==
  [symbol |-> "ETH", name |-> "Ethereum", balance |-> ethBalance,
   usdValue |-> IF "ETH" \in DOMAIN prices
                THEN Times(parseFloat(ethBalance), prices["ETH"].price) ELSE 0]

withUsdValue(asset, prices) ==
  [address |-> asset.address, symbol |-> asset.symbol, name |-> asset.name,
   balance |-> asset.balance, error |-> asset.error, cacheTime |-> asset.cacheTime,
   usdValue |-> Times(parseFloat(asset.balance), priceOf(prices, asset.symbol))]

tokensWithValue(validBalances, prices) ==
  [i \in 1..Len(validBalances) |-> withUsdValue(validBalances[i], prices)]

\* sort((a, b) => b.usdValue - a.usdValue), stable
RECURSIVE insertByValue(_, _)
insertByValue(sorted, x) ==
  IF sorted = <<>> THEN <<x>>
  ELSE IF x.usdValue > Head(sorted).usdValue THEN <<x>> \o sorted
  ELSE <<Head(sorted)>> \o insertByValue(Tail(sorted), x)

\* the list left in the order of the balance results
leftUnsorted(list) == list

RECURSIVE sortByValue(_)
sortByValue(list) ==
  IF list = <<>> THEN <<>>
  ELSE insertByValue(sortByValue(SubSeq(list, 1, Len(list) - 1)), list[Len(list)])

countsAsValue(usdValue) == Truthy(usdValue)

RECURSIVE sumValues(_)
sumValues(usdValues) ==
  IF usdValues = <<>> THEN 0
  ELSE (IF countsAsValue(Head(usdValues)) THEN Head(usdValues) ELSE 0) + sumValues(Tail(usdValues))

usdValuesOf(ethRec, tokens) == <<ethRec.usdValue>> \o [i \in 1..Len(tokens) |-> tokens[i].usdValue]

totalNetWorthOf(ethRec, tokens) == sumValues(usdValuesOf(ethRec, tokens))

\* the breakdown counted over the tokens, the ETH record left out
breakdownOfTokens(ethRec, tokens) ==
  LET withValue == Cardinality({ i \in 1..Len(tokens) : countsAsValue(tokens[i].usdValue) })
  IN [totalAssets |-> Len(tokens), assetsWithValue |-> withValue,
      assetsWithoutValue |-> Len(tokens) - withValue]

breakdownOf(ethRec, tokens) ==
  LET vals == usdValuesOf(ethRec, tokens)
      withValue == Cardinality({ i \in 1..Len(vals) : countsAsValue(vals[i]) })
  IN [totalAssets |-> Len(vals), assetsWithValue |-> withValue,
      assetsWithoutValue |-> Len(vals) - withValue]

(***************************************************************************)
(* State                                                                   *)
(***************************************************************************)
VARIABLES
  now,                      \* Date.now(), minutes
  address,                  \* useAccount().address
  assets, ethBalance, isLoading, error, filteredTokens, priceData,
  isRateLimited, initialFetchDone,          \* useState of WalletAssets
  effectDeps,               \* dependency values of the fetch effect's last run
  fetchAssetsMemo,          \* state captured by the memoized fetchAssets closure
  loads,                    \* every fetchAssets call, in flight or settled
  globalTokenBalanceCache,  \* module-level Map
  sessionStorage,
  netWorth, assetBreakdown, \* WalletContext
  userAssets,               \* App
  failures                  \* number of requests that have failed so far

\* the price proxy (scripts/fetch-coinmarketcap-api.js), a process of its own
VARIABLES
  proxyNow,                 \* Date.now() of the proxy, minutes
  requestCount, windowStart,
  timerDue,                 \* when the reset interval fires next
  proxyCache,               \* the proxy's Map priceCache
  upstream,                 \* requests to CoinMarketCap that are in flight
  lastReply,                \* what the proxy answered last
  passedNow,                \* requests that passed the limiter at this instant
  passedSinceReset,         \* requests that passed since the counter was last reset
  proxyRequests             \* price requests received so far

walletVars == << now, address, assets, ethBalance, isLoading, error, filteredTokens, priceData,
                 isRateLimited, initialFetchDone, effectDeps, fetchAssetsMemo, loads,
                 globalTokenBalanceCache, sessionStorage, netWorth, assetBreakdown,
                 userAssets, failures >>

proxyVars == << proxyNow, requestCount, windowStart, timerDue, proxyCache, upstream,
                lastReply, passedNow, passedSinceReset, proxyRequests >>

\* the LendingData component (its state, its session-storage item, its requests)
VARIABLES
  lendingData, lendingIsLoading, lendingError,
  lendingCache,             \* sessionStorage['lending-data-cache'], <<>> when absent
  lendingNow,               \* Date.now() of the lending page, minutes
  lendingCalls,             \* requests to the yield API that are in flight
  lendingMount,             \* the mounted instance, 0 before the first mount
  lendingSource             \* where lendingData was last set from

lendingVars == << lendingData, lendingIsLoading, lendingError, lendingCache, lendingNow,
                  lendingCalls, lendingMount, lendingSource >>

\* processTokenTransactions applied to a transaction list of any make-up
VARIABLES
  listedTxs,                 \* the list handed over
  classified                \* what the function returned and counted, once it ran

classifyVars == << listedTxs, classified >>

\* the StakingData component
VARIABLES
  stakingData, stakingIsLoading, stakingError,
  stakingProps,             \* walletAddress and userAssets handed down by the parent
  stakingCache,             \* sessionStorage['staking-data-cache'], <<>> when absent
  stakingCalls              \* fetches awaiting their four answers, and fetches so far

stakingVars == << stakingData, stakingIsLoading, stakingError, stakingProps, stakingCache,
                  stakingCalls >>

\* the PortfolioOptimizer component
VARIABLES
  optimizerProps,           \* userAssets, and netWorth, assetBreakdown of the context
  portfolioSummary          \* the memoised summary of the last render

optimizerVars == << optimizerProps, portfolioSummary >>

\* the InvestmentOpportunities component
VARIABLES
  activeTab,                \* useState('staking'); "" while the component is unmounted
  savedTab,                 \* sessionStorage 'investment-active-tab'; "" when absent
  tabPhase,                 \* "rendered" (mount effect not yet run), "mounted", "unmounted"
  tabClicks,                \* the tabs clicked so far, in order
  tabMounts                 \* how often the component has been mounted

tabVars == << activeTab, savedTab, tabPhase, tabClicks, tabMounts >>

\* the WalletSymbols component
VARIABLES
  symbolsAssets,            \* the userAssets prop, as the list of the assets' symbols
  tokenPrices,              \* useState({})
  symbolsIsLoading,         \* useState(false)
  symbolsError,             \* useState(null); "" for null
  fetchStatus,              \* useState({})
  symbolsCache,             \* sessionStorage 'wallet-symbols-price-cache'
  symbolsNow,               \* Date.now(), in minutes
  symbolsCalls,             \* the calls of fetchTokenPrices awaiting the proxy
  symbolsRuns,              \* how often the effect has run
  pricesFrom                \* where the last finished fetchTokenPrices took its prices

symbolsVars == << symbolsAssets, tokenPrices, symbolsIsLoading, symbolsError, fetchStatus,
                  symbolsCache, symbolsNow, symbolsCalls, symbolsRuns, pricesFrom >>

\* what a step of the wallet component, of the proxy, of the lending
\* component leaves alone
besideWallet == << proxyVars, lendingVars, classifyVars, stakingVars, optimizerVars, tabVars, symbolsVars >>
besideProxy == << walletVars, lendingVars, classifyVars, stakingVars, optimizerVars, tabVars, symbolsVars >>
besideLending == << walletVars, proxyVars, classifyVars, stakingVars, optimizerVars, tabVars, symbolsVars >>

besideClassify == << walletVars, proxyVars, lendingVars, stakingVars, optimizerVars, tabVars, symbolsVars >>
besideStaking == << walletVars, proxyVars, lendingVars, classifyVars, optimizerVars, tabVars, symbolsVars >>
besideOptimizer == << walletVars, proxyVars, lendingVars, classifyVars, stakingVars, tabVars, symbolsVars >>
besideTabs == << walletVars, proxyVars, lendingVars, classifyVars, stakingVars, optimizerVars, symbolsVars >>
besideSymbols == << walletVars, proxyVars, lendingVars, classifyVars, stakingVars, optimizerVars, tabVars >>
vars == << walletVars, proxyVars, lendingVars, classifyVars, stakingVars, optimizerVars, tabVars, symbolsVars >>

\* everything a continuation of fetchAssets can read or write, as one record
World ==
  [ assets |-> assets, ethBalance |-> ethBalance, isLoading |-> isLoading, error |-> error,
    filteredTokens |-> filteredTokens, priceData |-> priceData,
    isRateLimited |-> isRateLimited, initialFetchDone |-> initialFetchDone,
    fetchAssetsMemo |-> fetchAssetsMemo, loads |-> loads,
    globalTokenBalanceCache |-> globalTokenBalanceCache, sessionStorage |-> sessionStorage,
    netWorth |-> netWorth, assetBreakdown |-> assetBreakdown, userAssets |-> userAssets ]

Commit(w) ==
  /\ assets' = w.assets
  /\ ethBalance' = w.ethBalance
  /\ isLoading' = w.isLoading
  /\ error' = w.error
  /\ filteredTokens' = w.filteredTokens
  /\ priceData' = w.priceData
  /\ isRateLimited' = w.isRateLimited
  /\ initialFetchDone' = w.initialFetchDone
  /\ fetchAssetsMemo' = w.fetchAssetsMemo
  /\ loads' = w.loads
  /\ globalTokenBalanceCache' = w.globalTokenBalanceCache
  /\ sessionStorage' = w.sessionStorage
  /\ netWorth' = w.netWorth
  /\ assetBreakdown' = w.assetBreakdown
  /\ userAssets' = w.userAssets

NoEntries == <<>>

hasItem(storage, key) == key \in DOMAIN storage
setItem(storage, key, value) == (key :> value) @@ storage

request(kind, key) == [kind |-> kind, key |-> key]

Min(a, b) == IF a < b THEN a ELSE b

(***************************************************************************)
(* fetchAssets, from its last statement backwards: each operator is the    *)
(* code that runs, without interruption, once the awaited results are in.  *)
(***************************************************************************)

\* lines 566-640 and the finally block: valuation, updateNetWorth, setAssets,
\* onAssetsLoaded.  The ETH record is built from the ethBalance state captured
\* by the closure.  updateNetWorth and setUserAssets re-render the provider,
\* so the fetchAssets closure is rebuilt over the state after this step.
finishLoad(w, l, prices) ==
  LET L == w.loads[l]
      eth == ethRecord(L.ethBalance, prices)
      tokens == tokensWithValue(L.validBalances, prices)
      assetsWithValue == <<eth>> \o tokens
      sortedAssets == sortByValue(tokens)
      totalNetWorth == totalNetWorthOf(eth, tokens)
  IN [w EXCEPT
        !.priceData = prices,
        !.netWorth = totalNetWorth,
        !.assetBreakdown = breakdownOf(eth, tokens),
        !.assets = sortedAssets,
        !.userAssets = assetsWithValue,
        !.isLoading = FALSE,
        !.fetchAssetsMemo = [ethBalance |-> w.ethBalance, assetsLength |-> Len(sortedAssets)],
        !.loads[l].pc = "done",
        !.loads[l].prices = prices,
        !.loads[l].passedAssets = assetsWithValue,
        !.loads[l].passedNetWorth = totalNetWorth]

\* fetchPriceData lines 433-447: one batch of per-symbol requests
startPriceBatch(w, l) ==
  LET L == w.loads[l]
      batch == SubSeq(L.symbolsToFetch, L.pi + 1, Min(L.pi + PRICE_BATCH_SIZE, Len(L.symbolsToFetch)))
      issued == [k \in 1..Len(batch) |-> request("price", batch[k])]
  IN [w EXCEPT
        !.loads[l].pc = "prices",
        !.loads[l].pending = Range(issued),
        !.loads[l].requests = @ \o issued,
        !.loads[l].priceResults = NoEntries]

\* fetchPriceData lines 449-475: a batch has settled
afterPriceBatch(w, l, t) ==
  LET L == w.loads[l]
      merged == L.priceResults @@ L.fetchedPrices
  IN IF L.pi + PRICE_BATCH_SIZE < Len(L.symbolsToFetch)
     THEN [w EXCEPT !.loads[l].fetchedPrices = merged,
                    !.loads[l].pc = "priceDelay"]
     ELSE finishLoad(
            [w EXCEPT !.loads[l].fetchedPrices = merged,
                      !.sessionStorage = setItem(@, "price-data-cache",
                                                 [data |-> merged, timestamp |-> t])],
            l, merged)

\* ETH pushed without looking whether it is in the list already
priceSymbolsAlwaysPush(allAssets) ==
  Append(uniqueInOrder([k \in 1..Len(allAssets) |-> allAssets[k].symbol]), "ETH")

\* fetchPriceData lines 393-399: the symbols a price is wanted for
priceSymbols(allAssets) ==
  LET symbols == uniqueInOrder([k \in 1..Len(allAssets) |-> allAssets[k].symbol])
  IN IF "ETH" \in Range(symbols) THEN symbols ELSE Append(symbols, "ETH")

\* fetchAssets lines 543-565 and fetchPriceData lines 385-431
afterBalances(w, l, tokenBalances, t) ==
  LET validBalances == validBalancesOf(tokenBalances)
      L == w.loads[l]
      allAssets == <<[symbol |-> "ETH"]>> \o
                     [k \in 1..Len(validBalances) |-> [symbol |-> validBalances[k].symbol]]
      symbols == priceSymbols(allAssets)
      cached == IF hasItem(w.sessionStorage, "price-data-cache")
                THEN w.sessionStorage["price-data-cache"] ELSE [data |-> NoEntries, timestamp |-> 0]
      priceCache == IF hasItem(w.sessionStorage, "price-data-cache")
                       /\ t - cached.timestamp < PRICE_CACHE_TTL
                    THEN cached.data ELSE NoEntries
      symbolsToFetch == SelectSeq(symbols, LAMBDA sym : sym \notin DOMAIN priceCache)
      w1 == [w EXCEPT !.loads[l].tokenBalances = tokenBalances,
                      !.loads[l].validBalances = validBalances,
                      !.loads[l].symbolsToFetch = symbolsToFetch,
                      !.loads[l].fetchedPrices = priceCache,
                      !.loads[l].cachedPrices =
                         [sym \in Range(symbols) \cap DOMAIN priceCache |-> priceCache[sym]],
                      !.loads[l].pricesAt = t,
                      !.loads[l].pi = 0]
  IN IF symbolsToFetch = <<>> THEN finishLoad(w1, l, priceCache)
     ELSE startPriceBatch(w1, l)

cacheKeyOf(walletAddress, tokenAddress) == walletAddress \o "-" \o tokenAddress

tokenData(token, balance, t) ==
  [address |-> token.address, symbol |-> token.symbol, name |-> token.name,
   balance |-> balance, error |-> FALSE, cacheTime |-> t]

tokenError(token) ==
  [address |-> token.address, symbol |-> token.symbol, name |-> token.name,
   balance |-> "Error", error |-> TRUE, cacheTime |-> 0]

\* the cache check without the comparison of the entry's age
cacheHitAnyAge(cache, walletAddress, tokenAddress, t) ==
  cacheKeyOf(walletAddress, tokenAddress) \in DOMAIN cache

\* fetchTokenBalance lines 222-232: is the call answered from the in-memory cache
cacheHit(cache, walletAddress, tokenAddress, t) ==
  /\ cacheKeyOf(walletAddress, tokenAddress) \in DOMAIN cache
  /\ t - cache[cacheKeyOf(walletAddress, tokenAddress)].cacheTime < CACHE_EXPIRY

\* fetchTokenBalance lines 234-244: the call returns null without a request
skippedToken(token) ==
  \/ containsUrlPattern(token.symbol) \/ containsUrlPattern(token.name)
  \/ token.symbol = "" \/ trim(token.symbol) = ""

\* a slice one element longer than the step of the loop
batchOfOverlapping(L) ==
  SubSeq(L.sortedTokens, L.i + 1, Min(L.i + TOKEN_BATCH_SIZE + 1, Len(L.sortedTokens)))

batchOf(L) ==
  SubSeq(L.sortedTokens, L.i + 1, Min(L.i + TOKEN_BATCH_SIZE, Len(L.sortedTokens)))

\* fetchTokenBalances lines 356-381: every promise of the batch has settled
afterTokenBatch(w, l, t) ==
  LET L == w.loads[l]
      batch == batchOf(L)
      settled == SelectSeq(batch, LAMBDA tok : tok.key \in DOMAIN L.batchResults)
      validResults == [k \in 1..Len(settled) |-> L.batchResults[settled[k].key]]
      tokenBalances == L.tokenBalances \o validResults
  IN IF L.i + TOKEN_BATCH_SIZE < Len(L.sortedTokens)
     THEN [w EXCEPT !.loads[l].tokenBalances = tokenBalances,
                    !.loads[l].pc = "tokenDelay"]
     ELSE afterBalances(
            [w EXCEPT !.sessionStorage =
                 setItem(@, "token-balances-" \o L.address,
                         [balances |-> tokenBalances, timestamp |-> t])],
            l, tokenBalances, t)

\* fetchTokenBalances lines 340-354: the batch's fetchTokenBalance calls up to
\* their first await
startTokenBatch(w, l, t) ==
  LET L == w.loads[l]
      batch == batchOf(L)
      hit(tok) == cacheHit(w.globalTokenBalanceCache, L.address, tok.key, t)
      hits == SelectSeq(batch, hit)
      asked == SelectSeq(batch, LAMBDA tok : ~hit(tok) /\ ~skippedToken(tok))
      issued == [k \in 1..Len(asked) |-> request("balance", asked[k].key)]
      w1 == [w EXCEPT
               !.loads[l].pc = "balances",
               !.loads[l].balancesAt = t,
               !.loads[l].pending = Range(issued),
               !.loads[l].requests = @ \o issued,
               !.loads[l].batchResults =
                  [key \in { hits[k].key : k \in 1..Len(hits) } |->
                     w.globalTokenBalanceCache[cacheKeyOf(L.address, key)]]]
  IN IF asked = <<>> THEN afterTokenBatch(w1, l, t) ELSE w1

\* fetchTokenBalances lines 283-338
fetchTokenBalances(w, l, uniqueTokens, t) ==
  LET L == w.loads[l]
      batchCacheKey == "token-balances-" \o L.address
      cachedBatch == IF hasItem(w.sessionStorage, batchCacheKey)
                     THEN w.sessionStorage[batchCacheKey]
                     ELSE [balances |-> <<>>, timestamp |-> 0]
      fresh == hasItem(w.sessionStorage, batchCacheKey)
                 /\ t - cachedBatch.timestamp < CACHE_EXPIRY
      validCachedBalances ==
        SelectSeq(cachedBatch.balances,
                  LAMBDA tok : tok.address # "" /\ hasToken(uniqueTokens, toLowerCase(tok.address)))
  IN IF uniqueTokens = <<>> THEN afterBalances(w, l, <<>>, t)
     ELSE IF fresh /\ validCachedBalances # <<>> THEN afterBalances(w, l, validCachedBalances, t)
     ELSE startTokenBatch(
            [w EXCEPT !.loads[l].sortedTokens = sortByPriority(uniqueTokens),
                      !.loads[l].i = 0,
                      !.loads[l].tokenBalances = <<>>],
            l, t)

\* fetchAssets lines 532-540: both results of the Promise.all are in
afterParallel(w, l, t) ==
  LET L == w.loads[l]
      processed == processTokenTransactions(L.tokenTxs)
  IN fetchTokenBalances(
       [w EXCEPT !.ethBalance = L.balance,
                 !.filteredTokens = [urlFiltered |-> processed.urlFiltered,
                                     symbolFiltered |-> processed.symbolFiltered],
                 !.loads[l].uniqueTokens = processed.uniqueTokens],
       l, processed.uniqueTokens, t)

\* fetchAssets lines 641-679: the catch and finally blocks
catchLoad(w, l, message) ==
  LET L == w.loads[l]
      cachedPrices == hasItem(w.sessionStorage, "price-data-cache")
  IN IF messageIsRateLimit(message)
     THEN [w EXCEPT
             !.isRateLimited = TRUE,
             !.priceData = IF cachedPrices THEN w.sessionStorage["price-data-cache"].data ELSE @,
             !.error = IF L.assetsLength > 0
                       THEN "Rate limit reached. Displaying cached data."
                       ELSE "Rate limit reached. Please try again later.",
             !.isLoading = FALSE,
             !.loads[l].pc = "error"]
     ELSE [w EXCEPT
             !.error = "Failed to fetch wallet assets: " \o message,
             !.isLoading = FALSE,
             !.loads[l].pc = "error"]

\* fetchAssets lines 509-530 with fetchEthBalance lines 75-91 and fetchTokenData
\* lines 110-120, up to the first await
startLoad(w, t) ==
  LET cacheKey == "eth-balance-" \o address
      cachedEth == hasItem(w.sessionStorage, cacheKey)
                     /\ t - w.sessionStorage[cacheKey].timestamp < ETH_CACHE_TTL
      issued == (IF cachedEth THEN <<>> ELSE <<request("eth", address)>>)
                  \o <<request("tokentx", address)>>
      L == [address |-> address,
            ethBalance |-> w.fetchAssetsMemo.ethBalance,
            assetsLength |-> w.fetchAssetsMemo.assetsLength,
            pc |-> "parallel",
            pending |-> Range(issued),
            requests |-> issued,
            ethSettled |-> cachedEth,
            balance |-> IF cachedEth THEN w.sessionStorage[cacheKey].balance ELSE "",
            txSettled |-> FALSE,
            tokenTxs |-> <<>>,
            uniqueTokens |-> <<>>, sortedTokens |-> <<>>, i |-> 0,
            batchResults |-> NoEntries, tokenBalances |-> <<>>, validBalances |-> <<>>,
            symbolsToFetch |-> <<>>, pi |-> 0, priceResults |-> NoEntries,
            fetchedPrices |-> NoEntries,
            cachedPrices |-> NoEntries, pricesAt |-> 0, balancesAt |-> 0,
            prices |-> NoEntries, passedAssets |-> <<>>, passedNetWorth |-> 0]
  IN [w EXCEPT !.isLoading = TRUE,
               !.error = "",
               !.filteredTokens = [urlFiltered |-> 0, symbolFiltered |-> 0],
               !.loads = Append(@, L)]

(***************************************************************************)
(* Initial state: WalletAssets has just mounted for a connected wallet, in *)
(* a fresh browser tab.                                                    *)
(***************************************************************************)
\* the proxy has just started, its cache file holding the given entries
ProxyInit(loaded) ==
  /\ proxyNow = 0
  /\ requestCount = 0
  /\ windowStart = 0
  /\ timerDue = RATE_LIMIT_WINDOW
  /\ proxyCache = loaded
  /\ upstream = <<>>
  /\ lastReply = [endpoint |-> "", requested |-> <<>>, status |-> 0, body |-> <<>>]
  /\ passedNow = 0
  /\ passedSinceReset = 0
  /\ proxyRequests = 0

\* LendingData before it is mounted, the session storage without its item
LendingInit ==
  /\ lendingData = <<>>
  /\ lendingIsLoading = FALSE
  /\ lendingError = ""
  /\ lendingCache = <<>>
  /\ lendingNow = 0
  /\ lendingCalls = <<>>
  /\ lendingMount = 0
  /\ lendingSource = [from |-> "none", shape |-> "", pools |-> <<>>]

ClassifyInit ==
  /\ listedTxs = <<>>
  /\ classified = [done |-> FALSE, uniqueTokens |-> <<>>, urlFiltered |-> 0,
                   symbolFiltered |-> 0]

\* WalletAssets, App and WalletContext at the mount
WalletInit(wallet) ==
  /\ now = 0
  /\ address = wallet
  /\ assets = <<>>
  /\ ethBalance = "0"
  /\ isLoading = FALSE
  /\ error = ""
  /\ filteredTokens = [urlFiltered |-> 0, symbolFiltered |-> 0]
  /\ priceData = NoEntries
  /\ isRateLimited = FALSE
  /\ initialFetchDone = FALSE
  /\ effectDeps = <<>>
  /\ fetchAssetsMemo = [ethBalance |-> "0", assetsLength |-> 0]
  /\ loads = <<>>
  /\ globalTokenBalanceCache = NoEntries
  /\ sessionStorage = NoEntries
  /\ netWorth = 0
  /\ assetBreakdown = [totalAssets |-> 0, assetsWithValue |-> 0, assetsWithoutValue |-> 0]
  /\ userAssets = <<>>
  /\ failures = 0

\* StakingData mounted without a wallet
StakingInit ==
  /\ stakingData = <<>>
  /\ stakingIsLoading = FALSE
  /\ stakingError = ""
  /\ stakingProps = [walletAddress |-> "", userAssets |-> <<>>]
  /\ stakingCache = <<>>
  /\ stakingCalls = [pending |-> 0, started |-> 0]

\* PortfolioOptimizer rendered before any asset has loaded
OptimizerInit ==
  /\ optimizerProps = [userAssets |-> <<>>, netWorth |-> 0,
                       assetBreakdown |-> [totalAssets |-> 0, assetsWithValue |-> 0,
                                           assetsWithoutValue |-> 0]]
  /\ portfolioSummary = [totalValue |-> 0, assetCount |-> 0, assetsWithValue |-> undefined,
                         assetsWithoutValue |-> undefined, hasValueData |-> FALSE]

\* InvestmentOpportunities after its first render, in a fresh session
TabsInit ==
  /\ activeTab = "staking"
  /\ savedTab = ""
  /\ tabPhase = "rendered"
  /\ tabClicks = <<>>
  /\ tabMounts = 1

\* WalletSymbols mounted without assets, in a fresh session
SymbolsInit ==
  /\ symbolsAssets = <<>>
  /\ tokenPrices = <<>>
  /\ symbolsIsLoading = FALSE
  /\ symbolsError = ""
  /\ fetchStatus = <<>>
  /\ symbolsCache = [present |-> FALSE, prices |-> <<>>, timestamp |-> 0]
  /\ symbolsNow = 0
  /\ symbolsCalls = <<>>
  /\ symbolsRuns = 0
  /\ pricesFrom = "none"

InitAt(wallet) ==
  /\ SymbolsInit
  /\ TabsInit
  /\ OptimizerInit
  /\ StakingInit
  /\ WalletInit(wallet)
  /\ ProxyInit(<<>>)
  /\ LendingInit
  /\ ClassifyInit

Init == InitAt(WalletA)

(***************************************************************************)
(* The fetch effect                                                        *)
(***************************************************************************)
currentDeps == <<address, isRateLimited, initialFetchDone>>

\* a committed render whose effect has not run yet
EffectPending == effectDeps # currentDeps

\* the effect without its rate-limit guard
effectFetchesUnguarded == ~initialFetchDone \/ address # ""

\* the body of the effect, lines 692-704: does this run call fetchAssets
effectFetches == ~isRateLimited /\ (~initialFetchDone \/ address # "")

RunEffect ==
  /\ EffectPending
  /\ effectDeps' = currentDeps
  /\ IF effectFetches
     THEN /\ now' = now
          /\ address' = address
          /\ \E w \in {[startLoad(World, now) EXCEPT !.initialFetchDone = TRUE]} : Commit(w)
     ELSE UNCHANGED << now, address, assets, ethBalance, isLoading, error, filteredTokens,
                       priceData, isRateLimited, initialFetchDone, fetchAssetsMemo, loads,
                       globalTokenBalanceCache, sessionStorage, netWorth, assetBreakdown,
                       userAssets, failures >>
  /\ UNCHANGED failures

(***************************************************************************)
(* The environment                                                         *)
(***************************************************************************)
closureState == [ethBalance |-> ethBalance, assetsLength |-> Len(assets)]

\* the user switches account: App, the provider and WalletAssets re-render
\* and useCallback rebuilds fetchAssets (address is one of its dependencies)
AddressChange(a) ==
  /\ ~EffectPending
  /\ a # address
  /\ Len(loads) < MaxLoads \/ isRateLimited
  /\ address' = a
  /\ fetchAssetsMemo' = closureState
  /\ UNCHANGED << now, assets, ethBalance, isLoading, error, filteredTokens, priceData,
                  isRateLimited, initialFetchDone, effectDeps, loads,
                  globalTokenBalanceCache, sessionStorage, netWorth, assetBreakdown,
                  userAssets, failures >>

\* useAccount hands App a new account object (status or chain change): the
\* provider re-renders, updateNetWorth is a new function and useCallback
\* rebuilds fetchAssets over the current state
AccountUpdate ==
  /\ ~EffectPending
  /\ fetchAssetsMemo # closureState
  /\ fetchAssetsMemo' = closureState
  /\ UNCHANGED << now, address, assets, ethBalance, isLoading, error, filteredTokens,
                  priceData, isRateLimited, initialFetchDone, effectDeps, loads,
                  globalTokenBalanceCache, sessionStorage, netWorth, assetBreakdown,
                  userAssets, failures >>

\* a load takes seconds: the minute clock advances between loads
Settled(L) == L.pc \in {"done", "error"} /\ L.pending = {}

Tick ==
  /\ ~EffectPending
  /\ \A l \in 1..Len(loads) : Settled(loads[l])
  /\ now < MaxTime
  /\ now' = now + 1
  /\ UNCHANGED << address, assets, ethBalance, isLoading, error, filteredTokens, priceData,
                  isRateLimited, initialFetchDone, effectDeps, fetchAssetsMemo, loads,
                  globalTokenBalanceCache, sessionStorage, netWorth, assetBreakdown,
                  userAssets, failures >>

LoadIds == 1..Len(loads)

\* a response that is a failure uses up one unit of the failure bound
Spend(n) ==
  /\ failures + n <= MaxFailures
  /\ failures' = failures + n

settle(w, l, req) == [w EXCEPT !.loads[l].pending = @ \ {req}]

\* provider.getBalance settles (fetchEthBalance lines 93-106)
EthBalanceResponse(l, ok) ==
  LET L == loads[l]
      req == request("eth", L.address)
      formattedBalance == formatUnits(ChainEthBalance(L.address))
      w1 == [settle(World, l, req) EXCEPT
               !.loads[l].ethSettled = TRUE,
               !.loads[l].balance = IF ok THEN formattedBalance ELSE "Error",
               !.sessionStorage =
                  IF ok THEN setItem(@, "eth-balance-" \o L.address,
                                     [balance |-> formattedBalance, timestamp |-> now])
                  ELSE @]
  IN /\ ~EffectPending
     /\ req \in L.pending
     /\ Spend(IF ok THEN 0 ELSE 1)
     /\ \E w \in {IF L.pc = "parallel" /\ L.txSettled THEN afterParallel(w1, l, now) ELSE w1} :
          Commit(w)
     /\ UNCHANGED << now, address, effectDeps >>

TxOutcomes == {"ok", "http429", "timeout", "notok"}

\* the Etherscan request settles (fetchTokenData lines 120-149)
TokenDataResponse(l, outcome) ==
  LET L == loads[l]
      req == request("tokentx", L.address)
      err == EtherscanError(outcome)
      w1 == settle(World, l, req)
      got(w, tokenTxs) ==
        LET w2 == [w EXCEPT !.loads[l].txSettled = TRUE, !.loads[l].tokenTxs = tokenTxs]
        IN IF L.ethSettled THEN afterParallel(w2, l, now) ELSE w2
  IN /\ ~EffectPending
     /\ req \in L.pending
     /\ Spend(IF outcome = "ok" THEN 0 ELSE 1)
     /\ \E w \in {IF outcome = "ok" THEN got(w1, EtherscanResult(L.address))
                  ELSE IF isRateLimitError(err)
                    THEN got([w1 EXCEPT !.isRateLimited = TRUE], <<>>)
                  ELSE catchLoad(w1, l, "Failed to fetch token data: " \o err.message)} :
          Commit(w)
     /\ UNCHANGED << now, address, effectDeps >>

\* one balanceOf call settles or times out (fetchTokenBalance lines 258-279)
TokenBalanceResponse(l, key, ok) ==
  LET L == loads[l]
      req == request("balance", key)
      token == tokenAt(L.sortedTokens, key)
      data == tokenData(token, formatUnits(ChainTokenBalance(L.address, key)), now)
      result == IF ok THEN data ELSE tokenError(token)
      w1 == [settle(World, l, req) EXCEPT
               !.loads[l].batchResults = (key :> result) @@ @,
               !.globalTokenBalanceCache =
                  IF ok THEN (cacheKeyOf(L.address, key) :> data) @@ @ ELSE @]
  IN /\ ~EffectPending
     /\ req \in L.pending
     /\ Spend(IF ok THEN 0 ELSE 1)
     /\ \E w \in {IF L.pending = {req} THEN afterTokenBatch(w1, l, now) ELSE w1} : Commit(w)
     /\ UNCHANGED << now, address, effectDeps >>

PriceOutcomes == {"ok", "error", "http429"}

pendingSymbols(L) == { req.key : req \in { r \in L.pending : r.kind = "price" } }

\* the /api/price/:symbol requests of one batch settle (fetchPriceData lines
\* 435-449).  receivedAt is no field of the code's record: it notes when the
\* proxy's answer arrived.  Each request's then/catch only maps its own response to a value
\* and Promise.all hands them over together, so the batch is one step.
PriceBatchResponse(l, outcomes) ==
  LET L == loads[l]
      received == { sym \in DOMAIN outcomes : outcomes[sym] = "ok" }
      w1 == [World EXCEPT
               !.loads[l].pending = {},
               !.loads[l].priceResults =
                  [sym \in received |->
                     [price |-> ProxyPrice(sym), lastUpdated |-> now, receivedAt |-> now]]]
  IN /\ ~EffectPending
     /\ L.pc = "prices"
     /\ DOMAIN outcomes = pendingSymbols(L)
     /\ Spend(Cardinality(DOMAIN outcomes \ received))
     /\ \E w \in {afterPriceBatch(w1, l, now)} : Commit(w)
     /\ UNCHANGED << now, address, effectDeps >>

\* delay(300) between two price batches has elapsed (fetchPriceData lines
\* 433-434 and 463-466): the loop goes on with the next slice
PriceDelayDone(l) ==
  /\ ~EffectPending
  /\ loads[l].pc = "priceDelay"
  /\ \E w \in {startPriceBatch([World EXCEPT !.loads[l].pi = @ + PRICE_BATCH_SIZE], l)} :
       Commit(w)
  /\ UNCHANGED << now, address, effectDeps, failures >>

\* delay(200) between two balance batches has elapsed (fetchTokenBalances
\* lines 340-341 and 366-369).  Only the wallet of SpecBatch holds more than
\* TOKEN_BATCH_SIZE tokens, so the step is a disjunct of NextBatch and not of
\* Next.
TokenDelayDone(l) ==
  /\ ~EffectPending
  /\ loads[l].pc = "tokenDelay"
  /\ \E w \in {startTokenBatch([World EXCEPT !.loads[l].i = @ + TOKEN_BATCH_SIZE], l, now)} :
       Commit(w)
  /\ UNCHANGED << now, address, effectDeps, failures >>

\* the lower-cased contract addresses the transaction index knows
TokenKeys ==
  UNION { { lowerCased(EtherscanResult(w)[i].contractAddress) :
            i \in 1..Len(EtherscanResult(w)) } : w \in AllWallets }

Next ==
  \/ RunEffect /\ UNCHANGED besideWallet
  \/ \E a \in Wallets : AddressChange(a) /\ UNCHANGED besideWallet
  \/ AccountUpdate /\ UNCHANGED besideWallet
  \/ Tick /\ UNCHANGED besideWallet
  \/ \E l \in LoadIds : \E ok \in BOOLEAN : EthBalanceResponse(l, ok) /\ UNCHANGED besideWallet
  \/ \E l \in LoadIds : \E outcome \in TxOutcomes : TokenDataResponse(l, outcome) /\ UNCHANGED besideWallet
  \/ \E l \in LoadIds : \E key \in TokenKeys : \E ok \in BOOLEAN : TokenBalanceResponse(l, key, ok) /\ UNCHANGED besideWallet
  \/ \E l \in LoadIds : \E outcomes \in [pendingSymbols(loads[l]) -> PriceOutcomes] :
       PriceBatchResponse(l, outcomes) /\ UNCHANGED besideWallet
  \/ \E l \in LoadIds : PriceDelayDone(l) /\ UNCHANGED besideWallet

Spec == Init /\ [][Next]_vars

(***************************************************************************)
(* The same component mounted for the wallet whose tokens fill more than   *)
(* one balance batch; the user stays on that wallet.                       *)
(***************************************************************************)
InitBatch == InitAt(WalletC)

NextBatch ==
  \/ RunEffect /\ UNCHANGED besideWallet
  \/ \E l \in LoadIds : \E ok \in BOOLEAN : EthBalanceResponse(l, ok) /\ UNCHANGED besideWallet
  \/ \E l \in LoadIds : \E outcome \in TxOutcomes : TokenDataResponse(l, outcome) /\ UNCHANGED besideWallet
  \/ \E l \in LoadIds : \E key \in TokenKeys : \E ok \in BOOLEAN : TokenBalanceResponse(l, key, ok) /\ UNCHANGED besideWallet
  \/ \E l \in LoadIds : TokenDelayDone(l) /\ UNCHANGED besideWallet
  \/ \E l \in LoadIds : \E outcomes \in [pendingSymbols(loads[l]) -> PriceOutcomes] :
       PriceBatchResponse(l, outcomes) /\ UNCHANGED besideWallet

SpecBatch == InitBatch /\ [][NextBatch]_vars

(***************************************************************************)
(* A user who lets every load end before switching account and who stays   *)
(* long enough for every cache to expire.                                  *)
(***************************************************************************)
Idle == ~EffectPending /\ \A l \in LoadIds : Settled(loads[l])

\* the user switches account while nothing is in flight
SwitchWhenIdle(a) ==
  /\ Idle
  /\ a # address
  /\ Len(loads) < MaxVisits
  /\ address' = a
  /\ fetchAssetsMemo' = closureState
  /\ UNCHANGED << now, assets, ethBalance, isLoading, error, filteredTokens, priceData,
                  isRateLimited, initialFetchDone, effectDeps, loads,
                  globalTokenBalanceCache, sessionStorage, netWorth, assetBreakdown,
                  userAssets, failures >>

\* a minute passes while nothing is in flight
Wait ==
  /\ Idle
  /\ now < MaxClock
  /\ now' = now + 1
  /\ UNCHANGED << address, assets, ethBalance, isLoading, error, filteredTokens, priceData,
                  isRateLimited, initialFetchDone, effectDeps, fetchAssetsMemo, loads,
                  globalTokenBalanceCache, sessionStorage, netWorth, assetBreakdown,
                  userAssets, failures >>

NextIdle ==
  \/ RunEffect /\ UNCHANGED besideWallet
  \/ \E a \in Wallets : SwitchWhenIdle(a) /\ UNCHANGED besideWallet
  \/ Wait /\ UNCHANGED besideWallet
  \/ \E l \in LoadIds : \E ok \in BOOLEAN : EthBalanceResponse(l, ok) /\ UNCHANGED besideWallet
  \/ \E l \in LoadIds : \E outcome \in TxOutcomes : TokenDataResponse(l, outcome) /\ UNCHANGED besideWallet
  \/ \E l \in LoadIds : \E key \in TokenKeys : \E ok \in BOOLEAN : TokenBalanceResponse(l, key, ok) /\ UNCHANGED besideWallet
  \/ \E l \in LoadIds : \E outcomes \in [pendingSymbols(loads[l]) -> PriceOutcomes] :
       PriceBatchResponse(l, outcomes) /\ UNCHANGED besideWallet
  \/ \E l \in LoadIds : PriceDelayDone(l) /\ UNCHANGED besideWallet

SpecIdle == Init /\ [][NextIdle]_vars

(***************************************************************************)
(* The price proxy: rate limiter                                           *)
(***************************************************************************)
\* the limiter that admits one request more than the maximum
rateLimiterOffByOne(count, start, t) ==
  LET newWindow == t - start > RATE_LIMIT_WINDOW
      c == IF newWindow THEN 0 ELSE count
      st == IF newWindow THEN t ELSE start
  IN IF c > MAX_REQUESTS_PER_WINDOW
     THEN [pass |-> FALSE, newWindow |-> newWindow, requestCount |-> c, windowStart |-> st]
     ELSE [pass |-> TRUE, newWindow |-> newWindow, requestCount |-> c + 1, windowStart |-> st]

\* the middleware, run at time t with the counter and window start it finds
rateLimiter(count, start, t) ==
  LET newWindow == t - start > RATE_LIMIT_WINDOW
      c == IF newWindow THEN 0 ELSE count
      st == IF newWindow THEN t ELSE start
  IN IF c >= MAX_REQUESTS_PER_WINDOW
     THEN [pass |-> FALSE, newWindow |-> newWindow, requestCount |-> c, windowStart |-> st]
     ELSE [pass |-> TRUE, newWindow |-> newWindow, requestCount |-> c + 1, windowStart |-> st]

limited == rateLimiter(requestCount, windowStart, proxyNow)

\* what the middleware leaves behind for the request it has just judged
Judged(lim) ==
  /\ requestCount' = lim.requestCount
  /\ windowStart' = lim.windowStart
  /\ passedNow' = passedNow + (IF lim.pass THEN 1 ELSE 0)
  /\ passedSinceReset' = (IF lim.newWindow THEN 0 ELSE passedSinceReset)
                          + (IF lim.pass THEN 1 ELSE 0)

tooManyRequests(endpoint, requested) ==
  [endpoint |-> endpoint, requested |-> requested, status |-> 429, body |-> <<>>]

\* /health answered without passing the limiter
HealthRequestUncounted ==
  /\ lastReply' = [endpoint |-> "health", requested |-> <<>>, status |-> 200, body |-> <<>>]
  /\ UNCHANGED << proxyNow, requestCount, windowStart, timerDue, proxyCache, upstream,
                  passedNow, passedSinceReset, proxyRequests >>

\* GET /health
HealthRequest ==
  /\ Judged(limited)
  /\ lastReply' = IF limited.pass
                  THEN [endpoint |-> "health", requested |-> <<>>, status |-> 200,
                        body |-> <<>>]
                  ELSE tooManyRequests("health", <<>>)
  /\ UNCHANGED << proxyNow, timerDue, proxyCache, upstream, proxyRequests >>

\* the callback of setInterval
WindowReset ==
  /\ proxyNow >= timerDue
  /\ requestCount' = 0
  /\ windowStart' = proxyNow
  /\ timerDue' = timerDue + RATE_LIMIT_WINDOW
  /\ passedSinceReset' = 0
  /\ UNCHANGED << proxyNow, proxyCache, upstream, lastReply, passedNow, proxyRequests >>

\* a minute passes at the proxy; a timer that is due fires first, and a
\* request to CoinMarketCap (timeout 5 or 8 seconds) is over within a minute
ProxyTick ==
  /\ proxyNow < MaxProxyTime
  /\ proxyNow < timerDue
  /\ \A c \in 1..Len(upstream) : upstream[c].now = proxyNow
  /\ proxyNow' = proxyNow + 1
  /\ passedNow' = 0
  /\ UNCHANGED << requestCount, windowStart, timerDue, proxyCache, upstream, lastReply,
                  passedSinceReset, proxyRequests >>

NextLimiter ==
  \/ HealthRequest /\ UNCHANGED besideProxy
  \/ WindowReset /\ UNCHANGED besideProxy
  \/ ProxyTick /\ UNCHANGED besideProxy

SpecLimiter == Init /\ [][NextLimiter]_vars

(***************************************************************************)
(* The price proxy: /api/price/:symbol and /api/prices                     *)
(***************************************************************************)
\* symbols clients ask for, as sent
RequestSymbols == {"ETH", "eth", "DAI", "XYZ"}

\* the symbols query of /api/prices after split(',')
RequestLists == { <<"ETH", "DAI">>, <<"eth">>, <<"DAI", "XYZ">> }

\* CoinMarketCap lists these, keyed in upper case; its quotes move with time
CmcListed == {"ETH", "DAI"}
CmcPrice(symbol, t) == ProxyPrice(symbol) + t

\* response.data.data of quotes/latest asked for the given symbols at time t
cmcData(symbols, t) ==
  [k \in { toUpperCase(x) : x \in Range(symbols) } \cap CmcListed |->
     [price |-> CmcPrice(k, t)]]

CmcOutcomes == {"ok", "http429", "error"}

\* an entry of any age counts as usable
cachedAnyAge(cache, key, t) == key \in DOMAIN cache

\* priceCache.has(key) && now - priceCache.get(key).timestamp < CACHE_DURATION
cached(cache, key, t) ==
  key \in DOMAIN cache /\ t - cache[key].timestamp < CACHE_DURATION

responseData(symbol, data) == [symbol |-> symbol, price |-> data.price]

reply(call, status, body) ==
  [endpoint |-> call.endpoint, requested |-> call.requested, status |-> status,
   body |-> body]

\* GET /api/price/:symbol up to its await
PriceRequest(symbol) ==
  /\ proxyRequests < MaxProxyRequests
  /\ proxyRequests' = proxyRequests + 1
  /\ Judged(limited)
  /\ LET cacheKey == toUpperCase(symbol)
         call == [endpoint |-> "price", requested |-> <<symbol>>, symbols |-> <<symbol>>,
                  now |-> proxyNow, result |-> NoEntries]
     IN IF ~limited.pass
        THEN /\ lastReply' = tooManyRequests("price", <<symbol>>)
             /\ UNCHANGED upstream
        ELSE IF cached(proxyCache, cacheKey, proxyNow)
        THEN /\ lastReply' = reply(call, 200, proxyCache[cacheKey].data)
             /\ UNCHANGED upstream
        ELSE /\ upstream' = Append(upstream, call)
             /\ UNCHANGED lastReply
  /\ UNCHANGED << proxyNow, timerDue, proxyCache >>

\* GET /api/prices?symbols=... up to its await
PricesRequest(symbols) ==
  /\ proxyRequests < MaxProxyRequests
  /\ proxyRequests' = proxyRequests + 1
  /\ Judged(limited)
  /\ LET symbolArray == [i \in 1..Len(symbols) |-> toUpperCase(symbols[i])]
         hit(symbol) == cached(proxyCache, symbol, proxyNow)
         result == [k \in { x \in Range(symbolArray) : hit(x) } |-> proxyCache[k].data]
         symbolsToFetch == SelectSeq(symbolArray, LAMBDA x : ~hit(x))
         call == [endpoint |-> "prices", requested |-> symbols, symbols |-> symbolsToFetch,
                  now |-> proxyNow, result |-> result]
     IN IF ~limited.pass
        THEN /\ lastReply' = tooManyRequests("prices", symbols)
             /\ UNCHANGED upstream
        ELSE IF Len(symbolsToFetch) = 0
        THEN /\ lastReply' = reply(call, 200, result)
             /\ UNCHANGED upstream
        ELSE /\ upstream' = Append(upstream, call)
             /\ UNCHANGED lastReply
  /\ UNCHANGED << proxyNow, timerDue, proxyCache >>

without(calls, c) == SubSeq(calls, 1, c - 1) \o SubSeq(calls, c + 1, Len(calls))

\* the rest of /api/price/:symbol once CoinMarketCap has answered
priceContinuation(call, outcome) ==
  LET symbol == call.symbols[1]
      cacheKey == toUpperCase(symbol)
      data == cmcData(call.symbols, proxyNow)
  IN CASE outcome = "ok" /\ symbol \in DOMAIN data ->
            LET answer == responseData(symbol, data[symbol])
            IN /\ proxyCache' = setItem(proxyCache, cacheKey,
                                        [timestamp |-> call.now, data |-> answer])
               /\ lastReply' = reply(call, 200, answer)
       [] outcome = "ok" /\ symbol \notin DOMAIN data ->
            /\ lastReply' = reply(call, 404, NoEntries)
            /\ UNCHANGED proxyCache
       [] outcome = "http429" ->
            /\ lastReply' = IF cacheKey \in DOMAIN proxyCache
                            THEN reply(call, 200, proxyCache[cacheKey].data)
                            ELSE reply(call, 429, NoEntries)
            /\ UNCHANGED proxyCache
       [] OTHER ->
            /\ lastReply' = reply(call, 500, NoEntries)
            /\ UNCHANGED proxyCache

\* the rest of /api/prices once CoinMarketCap has answered
pricesContinuation(call, outcome) ==
  LET data == cmcData(call.symbols, proxyNow)
      quoted == { x \in Range(call.symbols) : x \in DOMAIN data }
      fetched == [k \in quoted |-> responseData(k, data[k])]
  IN CASE outcome = "ok" ->
            /\ proxyCache' = [k \in quoted |-> [timestamp |-> call.now, data |-> fetched[k]]]
                               @@ proxyCache
            /\ lastReply' = reply(call, 200, fetched @@ call.result)
       [] outcome = "http429" ->
            /\ lastReply' = reply(call, 429, NoEntries)
            /\ UNCHANGED proxyCache
       [] OTHER ->
            /\ lastReply' = reply(call, 500, NoEntries)
            /\ UNCHANGED proxyCache

\* CoinMarketCap answers the c-th request in flight
CmcResponse(c, outcome) ==
  /\ c \in 1..Len(upstream)
  /\ upstream' = without(upstream, c)
  /\ IF upstream[c].endpoint = "price"
     THEN priceContinuation(upstream[c], outcome)
     ELSE pricesContinuation(upstream[c], outcome)
  /\ UNCHANGED << proxyNow, requestCount, windowStart, timerDue, passedNow,
                  passedSinceReset, proxyRequests >>

NextProxy ==
  \/ \E symbol \in RequestSymbols : PriceRequest(symbol) /\ UNCHANGED besideProxy
  \/ \E symbols \in RequestLists : PricesRequest(symbols) /\ UNCHANGED besideProxy
  \/ \E c \in 1..MaxProxyRequests : \E outcome \in CmcOutcomes :
       CmcResponse(c, outcome) /\ UNCHANGED besideProxy
  \/ WindowReset /\ UNCHANGED besideProxy
  \/ ProxyTick /\ UNCHANGED besideProxy

SpecProxy == Init /\ [][NextProxy]_vars

(***************************************************************************)
(* LendingData: fetchLendingData                                           *)
(***************************************************************************)
LENDING_PROTOCOLS ==
  { "aave-v2", "aave-v3", "compound-v2", "compound-v3", "euler", "morpho-aave",
    "morpho-compound", "spark", "venus", "cream", "iron-bank", "maker",
    "clearpool-lending", "maple", "notional-v3", "silo-finance", "solend", "tenderfi",
    "benqi", "geist", "granary", "radiant", "seamless-protocol" }

\* pools the yield API may list; "" and undefined stand for a missing property
pool(symbol, project, protocol, chain, apy, apr) ==
  [symbol |-> symbol, project |-> project, protocol |-> protocol, chain |-> chain,
   apy |-> apy, apr |-> apr, tvlUsd |-> 0]

Pools ==
  { pool("USDC", "aave-v3", "", "Ethereum", 5, undefined),
    pool("DAI", "", "spark", "ethereum", undefined, 7),
    pool("WETH", "compound-v3", "", "Ethereum", 3, 3),
    pool("", "uniswap-v3", "", "Ethereum", 9, undefined),
    pool("USDT", "aave-v3", "", "Arbitrum", 8, undefined),
    pool("GUSD", "maker", "", "Ethereum", 1, undefined) }

PoolLists == UNION { [1..n -> Pools] : n \in 0..MaxPools }

\* response.data of a 200: { data: [...] }, { pools: [...] }, the bare array,
\* or an object with neither
Shapes == {"data", "pools", "array", "object"}

Bodies ==
  { [kind |-> "ok", shape |-> shape, pools |-> pools] :
      shape \in Shapes \ {"object"}, pools \in PoolLists }
  \cup { [kind |-> "ok", shape |-> "object", pools |-> <<>>],
         [kind |-> "empty", shape |-> "object", pools |-> <<>>],
         [kind |-> "failure", shape |-> "object", pools |-> <<>>] }

\* the poolsData that the filter runs over
poolsDataOf(body) ==
  IF body.shape = "data" THEN body.pools
  ELSE IF body.shape = "pools" THEN body.pools
  ELSE <<>>

\* the inner check of an unexpected structure: true when it throws
unparsable(body) == body.shape = "object"

apyOf(p) == IF p.apy # undefined THEN p.apy ELSE IF p.apr # undefined THEN p.apr ELSE 0
projectOf(p) == IF p.project # "" THEN p.project ELSE p.protocol

\* the condition of the reducer
kept(p) ==
  /\ apyOf(p) > MIN_APY
  /\ toLowerCase(p.chain) = "ethereum"
  /\ projectOf(p) \in LENDING_PROTOCOLS

lendingEntry(p) ==
  [symbol |-> IF p.symbol # "" THEN p.symbol ELSE "Unknown", protocol |-> projectOf(p),
   apy |-> apyOf(p), tvlUsd |-> p.tvlUsd, chain |-> p.chain]

RECURSIVE filteredData(_)
filteredData(pools) ==
  IF pools = <<>> THEN <<>>
  ELSE LET acc == filteredData(SubSeq(pools, 1, Len(pools) - 1))
           p == pools[Len(pools)]
       IN IF kept(p) THEN Append(acc, lendingEntry(p)) ELSE acc

\* Array.prototype.sort with (a, b) => b.apy - a.apy, which is stable
RECURSIVE insertByApy(_, _)
insertByApy(sorted, e) ==
  IF sorted = <<>> THEN <<e>>
  ELSE IF sorted[Len(sorted)].apy >= e.apy THEN Append(sorted, e)
  ELSE Append(insertByApy(SubSeq(sorted, 1, Len(sorted) - 1), e), sorted[Len(sorted)])

RECURSIVE sortByApy(_)
sortByApy(entries) ==
  IF entries = <<>> THEN <<>>
  ELSE insertByApy(sortByApy(SubSeq(entries, 1, Len(entries) - 1)), entries[Len(entries)])

\* the component is mounted: its state starts afresh, the effect runs
\* fetchLendingData up to its await
LendingMount ==
  /\ lendingMount < MaxMounts
  /\ lendingMount' = lendingMount + 1
  /\ IF lendingCache # <<>> /\ lendingNow - lendingCache[1].timestamp < LENDING_CACHE_TTL
     THEN /\ lendingData' = lendingCache[1].data
          /\ lendingSource' = [from |-> "cache", shape |-> "", pools |-> <<>>]
          /\ lendingIsLoading' = FALSE
          /\ UNCHANGED lendingCalls
     ELSE /\ lendingData' = <<>>
          /\ lendingSource' = [from |-> "none", shape |-> "", pools |-> <<>>]
          /\ lendingIsLoading' = TRUE
          /\ lendingCalls' = Append(lendingCalls, [mount |-> lendingMount + 1,
                                                   cachedData |-> lendingCache])
  /\ lendingError' = ""
  /\ UNCHANGED << lendingCache, lendingNow >>

\* the yield API answers the c-th request in flight; an instance that is no
\* longer mounted keeps no state, what it writes to the session storage stays
LendingResponse(c, body) ==
  /\ c \in 1..Len(lendingCalls)
  /\ lendingCalls' = without(lendingCalls, c)
  /\ LET call == lendingCalls[c]
         mounted == call.mount = lendingMount
         stored == sortByApy(filteredData(poolsDataOf(body)))
     IN CASE body.kind = "ok" /\ ~unparsable(body) ->
               /\ lendingCache' = << [data |-> stored, timestamp |-> lendingNow] >>
               /\ IF mounted
                  THEN /\ lendingData' = stored
                       /\ lendingSource' = [from |-> "network", shape |-> body.shape,
                                               pools |-> body.pools]
                       /\ lendingIsLoading' = FALSE
                       /\ UNCHANGED lendingError
                  ELSE UNCHANGED << lendingData, lendingSource, lendingIsLoading,
                                    lendingError >>
          [] body.kind = "empty" ->
               /\ UNCHANGED << lendingCache, lendingData, lendingSource >>
               /\ IF mounted
                  THEN /\ lendingError'
                            = "Failed to fetch lending data. Unexpected response format."
                       /\ lendingIsLoading' = FALSE
                  ELSE UNCHANGED << lendingIsLoading, lendingError >>
          [] OTHER ->
               /\ UNCHANGED lendingCache
               /\ IF ~mounted
                  THEN UNCHANGED << lendingData, lendingSource, lendingIsLoading,
                                    lendingError >>
                  ELSE IF call.cachedData # <<>>
                  THEN /\ lendingData' = call.cachedData[1].data
                       /\ lendingSource' = [from |-> "cache", shape |-> "", pools |-> <<>>]
                       /\ lendingError'
                            = "Using cached data. Latest data could not be fetched."
                       /\ lendingIsLoading' = FALSE
                  ELSE /\ lendingError'
                            = "Failed to fetch lending data. Please try again later."
                       /\ lendingIsLoading' = FALSE
                       /\ UNCHANGED << lendingData, lendingSource >>
  /\ UNCHANGED << lendingNow, lendingMount >>

\* a minute passes on the lending page; a request (timeout 15 seconds) is
\* over within a minute
LendingTick ==
  /\ lendingNow < MaxLendingTime
  /\ lendingCalls = <<>>
  /\ lendingNow' = lendingNow + 1
  /\ UNCHANGED << lendingData, lendingIsLoading, lendingError, lendingCache, lendingCalls,
                  lendingMount, lendingSource >>

\* what LendingData renders (the filter toggle is off until the table shows)
lendingRender ==
  IF lendingIsLoading THEN [screen |-> "loading", message |-> "", rows |-> <<>>]
  ELSE IF lendingError # "" THEN [screen |-> "error", message |-> lendingError, rows |-> <<>>]
  ELSE IF Len(lendingData) = 0 THEN [screen |-> "no-data", message |-> "", rows |-> <<>>]
  ELSE [screen |-> "table", message |-> "", rows |-> lendingData]

NextLending ==
  \/ LendingMount /\ UNCHANGED besideLending
  \/ \E c \in 1..MaxMounts : \E body \in Bodies :
       LendingResponse(c, body) /\ UNCHANGED besideLending
  \/ LendingTick /\ UNCHANGED besideLending

SpecLending == Init /\ [][NextLending]_vars

(***************************************************************************)
(* processTokenTransactions on arbitrary transaction lists                 *)
(***************************************************************************)
\* transactions Etherscan may list: upper and lower case of one address, a
\* second address, none; a symbol, a blank one, one with a URL; a plain name
\* and one with a URL
Transactions ==
  { [contractAddress |-> a, tokenSymbol |-> sym, tokenName |-> name] :
      a \in {"0xAA", "0xaa", "0xBB", ""},
      sym \in {"USDC", " ", "Visit WWW.X.IO"},
      name \in {"Airdrop", "CLAIM AT T.ME/GEM"} }

\* Etherscan lists one more transaction
ListTransaction(tx) ==
  /\ ~classified.done
  /\ Len(listedTxs) < MaxTxs
  /\ listedTxs' = Append(listedTxs, tx)
  /\ UNCHANGED classified

\* processTokenTransactions(tokenTxs) on that list
ProcessTransactions ==
  /\ ~classified.done
  /\ classified' = [done |-> TRUE] @@ processTokenTransactions(listedTxs)
  /\ UNCHANGED listedTxs

NextClassify ==
  \/ \E tx \in Transactions : ListTransaction(tx) /\ UNCHANGED besideClassify
  \/ ProcessTransactions /\ UNCHANGED besideClassify

SpecClassify == Init /\ [][NextClassify]_vars

(***************************************************************************)
(* The price proxy when its window is nearly used up                       *)
(***************************************************************************)
\* the proxy after MAX_REQUESTS_PER_WINDOW - 1 health checks in its first minute
InitBusy ==
  /\ WalletInit(WalletA)
  /\ LendingInit
  /\ ClassifyInit
  /\ StakingInit
  /\ OptimizerInit
  /\ TabsInit
  /\ SymbolsInit
  /\ proxyNow = 0
  /\ requestCount = MAX_REQUESTS_PER_WINDOW - 1
  /\ windowStart = 0
  /\ timerDue = RATE_LIMIT_WINDOW
  /\ proxyCache = <<>>
  /\ upstream = <<>>
  /\ lastReply = [endpoint |-> "health", requested |-> <<>>, status |-> 200, body |-> <<>>]
  /\ passedNow = MAX_REQUESTS_PER_WINDOW - 1
  /\ passedSinceReset = MAX_REQUESTS_PER_WINDOW - 1
  /\ proxyRequests = 0

\* health checks are followed while the window is nearly used up
NextBusy ==
  \/ (requestCount >= MAX_REQUESTS_PER_WINDOW - 1 /\ HealthRequest)
       /\ UNCHANGED besideProxy
  \/ \E symbol \in RequestSymbols : PriceRequest(symbol) /\ UNCHANGED besideProxy
  \/ \E symbols \in RequestLists : PricesRequest(symbols) /\ UNCHANGED besideProxy
  \/ \E c \in 1..MaxProxyRequests : \E outcome \in CmcOutcomes :
       CmcResponse(c, outcome) /\ UNCHANGED besideProxy
  \/ WindowReset /\ UNCHANGED besideProxy
  \/ ProxyTick /\ UNCHANGED besideProxy

SpecBusy == InitBusy /\ [][NextBusy]_vars

(***************************************************************************)
(* StakingData                                                             *)
(***************************************************************************)
\* entries of the statistics answer: the symbol of staking_token, the symbol
\* the token list has for its slug, the protocol name and the apy in
\* thousandths of a percent ("" and undefined stand for a missing property)
stat(symbol, listed, protocol, apy) ==
  [symbol |-> symbol, listed |-> listed, protocol |-> protocol, apy |-> apy]

Stats ==
  { stat("ETH", "", "Lido", 3504), stat("ETH", "", "Rocket Pool", 3100),
    stat("eth", "", "Frax", 5000), stat("", "DAI", "Spark", 2000),
    stat("", "", "Nameless", 9000), stat("USDC", "", "Aave", 0),
    stat("UNI", "", "Uniswap", 4), stat("DAI", "", "Maker", undefined) }

StatLists == UNION { [1..n -> Stats] : n \in 0..MaxStats }

\* the user's assets as the parent passes them
StakingAssetLists ==
  { <<>>, << [symbol |-> "ETH"] >>, << [symbol |-> "dai"], [symbol |-> "UNI"] >>,
    << [symbol |-> ""] >> }

\* Number.prototype.toFixed(2) followed by parseFloat: hundredths, rounded
toFixed2(thousandths) == (thousandths + 5) \div 10

\* the reducer over stats.data
RECURSIVE processedData(_)
processedData(stats) ==
  IF stats = <<>> THEN <<>>
  ELSE LET acc == processedData(SubSeq(stats, 1, Len(stats) - 1))
           item == stats[Len(stats)]
           assetName == IF item.symbol # "" THEN item.symbol
                        ELSE IF item.listed # "" THEN item.listed ELSE "Unknown"
           aprValue == IF item.apy # undefined THEN item.apy ELSE 0
       IN IF assetName = "Unknown" \/ aprValue <= 0 THEN acc
          ELSE Append(acc, [protocol |-> item.protocol, asset |-> assetName,
                            apr |-> toFixed2(aprValue), aprValue |-> aprValue])

\* Array.prototype.sort with (a, b) => b.aprValue - a.aprValue, which is stable
RECURSIVE insertByApr(_, _)
insertByApr(sorted, e) ==
  IF sorted = <<>> THEN <<e>>
  ELSE IF sorted[Len(sorted)].aprValue >= e.aprValue THEN Append(sorted, e)
  ELSE Append(insertByApr(SubSeq(sorted, 1, Len(sorted) - 1), e), sorted[Len(sorted)])

RECURSIVE sortByApr(_)
sortByApr(entries) ==
  IF entries = <<>> THEN <<>>
  ELSE insertByApr(sortByApr(SubSeq(entries, 1, Len(entries) - 1)), entries[Len(entries)])

userAssetSymbols(owned) ==
  { toUpperCase(owned[i].symbol) :
      i \in { k \in 1..Len(owned) : owned[k].symbol # "" } }

\* the list passed on without looking at the user's assets
filteredStakingDataUnfiltered(data, owned) == data

filteredStakingData(data, owned) ==
  IF Len(owned) = 0 THEN <<>>
  ELSE SelectSeq(data, LAMBDA item : toUpperCase(item.asset) \in userAssetSymbols(owned))

\* the Map from asset to its highest apr among the filtered rows
findHighestAprByAsset(filtered) ==
  [asset \in { filtered[i].asset : i \in 1..Len(filtered) } |->
     CHOOSE top \in { filtered[i].apr : i \in 1..Len(filtered) } :
       /\ \E i \in 1..Len(filtered) : filtered[i].asset = asset /\ filtered[i].apr = top
       /\ \A i \in 1..Len(filtered) : filtered[i].asset = asset => filtered[i].apr <= top]

\* what StakingData renders
stakingRender ==
  LET filtered == filteredStakingData(stakingData, stakingProps.userAssets)
      highest == findHighestAprByAsset(filtered)
      none(screen) == [screen |-> screen, rows |-> <<>>]
  IN IF stakingIsLoading THEN none("loading")
     ELSE IF stakingError # "" THEN none("error")
     ELSE IF Len(stakingData) = 0 THEN none("no-data")
     ELSE IF userAssetSymbols(stakingProps.userAssets) = {} \/ Len(filtered) = 0
       THEN none("no-data-for-assets")
     ELSE [screen |-> "table",
           rows |-> [i \in 1..Len(filtered) |->
                       [asset |-> filtered[i].asset, protocol |-> filtered[i].protocol,
                        apr |-> filtered[i].apr,
                        isHighestApr |-> filtered[i].apr = highest[filtered[i].asset]]]]

\* the parent passes a wallet address: the effect runs fetchStakingData up
\* to its await (fresh: the cached entry is less than 10 minutes old); without
\* an address the effect empties the list
StakingWalletChange(walletAddress, fresh) ==
  /\ walletAddress # stakingProps.walletAddress
  /\ stakingCalls.started < MaxStakingFetches
  /\ stakingProps' = [stakingProps EXCEPT !.walletAddress = walletAddress]
  /\ IF walletAddress = ""
     THEN /\ stakingData' = <<>>
          /\ UNCHANGED << stakingIsLoading, stakingError, stakingCalls >>
     ELSE /\ stakingError' = ""
          /\ IF stakingCache # <<>> /\ fresh
             THEN /\ stakingData' = stakingCache[1].data
                  /\ stakingIsLoading' = FALSE
                  /\ stakingCalls' = [stakingCalls EXCEPT !.started = @ + 1]
             ELSE /\ stakingIsLoading' = TRUE
                  /\ stakingCalls' = [pending |-> stakingCalls.pending + 1,
                                      started |-> stakingCalls.started + 1]
                  /\ UNCHANGED stakingData
  /\ UNCHANGED stakingCache

\* the parent passes other assets
StakingAssetsChange(owned) ==
  /\ owned # stakingProps.userAssets
  /\ stakingProps' = [stakingProps EXCEPT !.userAssets = owned]
  /\ UNCHANGED << stakingData, stakingIsLoading, stakingError, stakingCache, stakingCalls >>

\* Promise.all of the four requests settles: with the statistics, or rejected
StakingResponse(ok, stats) ==
  /\ stakingCalls.pending > 0
  /\ stakingCalls' = [stakingCalls EXCEPT !.pending = @ - 1]
  /\ stakingIsLoading' = FALSE
  /\ IF ok
     THEN LET sortedData == sortByApr(processedData(stats))
          IN /\ stakingCache' = << [data |-> sortedData] >>
             /\ stakingData' = sortedData
             /\ UNCHANGED stakingError
     ELSE /\ stakingError' = "Failed to fetch staking data. Please try again later."
          /\ UNCHANGED << stakingData, stakingCache >>
  /\ UNCHANGED stakingProps

NextStaking ==
  \/ \E walletAddress \in {"", WalletA, WalletB} : \E fresh \in BOOLEAN :
       StakingWalletChange(walletAddress, fresh) /\ UNCHANGED besideStaking
  \/ \E owned \in StakingAssetLists :
       StakingAssetsChange(owned) /\ UNCHANGED besideStaking
  \/ \E ok \in BOOLEAN : \E stats \in StatLists :
       StakingResponse(ok, stats) /\ UNCHANGED besideStaking

SpecStaking == Init /\ [][NextStaking]_vars

(***************************************************************************)
(* PortfolioOptimizer                                                      *)
(***************************************************************************)
\* assets as the parent may pass them: balance string, usdValue and price
\* (undefined stands for a missing property)
held(balance, usdValue, price) == [balance |-> balance, usdValue |-> usdValue, price |-> price]

HeldAssets ==
  { held("2", 4, 2), held("2", 18, undefined), held("Error", NaN, undefined),
    held("2", undefined, 2), held("0", 0, 2), held("3", 0, 1), held("2", NaN, 2) }

HeldLists == UNION { [1..n -> HeldAssets] : n \in 0..MaxHeld }

NetWorths == {0, 4, 18, 19, 20, 40}

Breakdowns ==
  { [totalAssets |-> 0, assetsWithValue |-> 0, assetsWithoutValue |-> 0],
    [totalAssets |-> 3, assetsWithValue |-> 2, assetsWithoutValue |-> 1] }

\* asset.usdValue && !isNaN(asset.usdValue)
hasUsdValue(asset) == asset.usdValue # undefined /\ Truthy(asset.usdValue)

RECURSIVE calculateTotalFromAssets(_)
calculateTotalFromAssets(list) ==
  IF list = <<>> THEN 0
  ELSE calculateTotalFromAssets(SubSeq(list, 1, Len(list) - 1))
       + (IF hasUsdValue(list[Len(list)]) THEN list[Len(list)].usdValue ELSE 0)

\* the comparison with <= in the place of <
netWorthReasonableOrEqual(worth, totalFromAssets) ==
  worth > 0 /\ (totalFromAssets = 0
                \/ 10 * (IF worth > totalFromAssets THEN worth - totalFromAssets
                         ELSE totalFromAssets - worth) <= worth)

\* netWorth > 0 && (totalFromAssets === 0
\*                  || Math.abs(netWorth - totalFromAssets) / netWorth < 0.1)
netWorthReasonable(worth, totalFromAssets) ==
  worth > 0 /\ (totalFromAssets = 0
                \/ 10 * (IF worth > totalFromAssets THEN worth - totalFromAssets
                         ELSE totalFromAssets - worth) < worth)

\* the value the forEach of the fallback gives one asset; undefined when the
\* asset is passed over
fallbackValue(asset) ==
  LET balance == parseFloat(asset.balance)
  IN IF asset.balance = "" \/ asset.balance = "Error" THEN undefined
     ELSE IF isNaN(balance) \/ balance <= 0 THEN undefined
     ELSE IF asset.usdValue # undefined /\ ~isNaN(asset.usdValue) THEN asset.usdValue
     ELSE IF asset.price # undefined /\ Truthy(asset.price) THEN balance * asset.price
     ELSE 0

RECURSIVE fallbackTotal(_)
fallbackTotal(list) ==
  IF list = <<>> THEN 0
  ELSE LET v == fallbackValue(list[Len(list)])
       IN fallbackTotal(SubSeq(list, 1, Len(list) - 1)) + (IF v # undefined /\ v > 0 THEN v ELSE 0)

\* the value of the useMemo
portfolioSummaryOf(props) ==
  LET list == props.userAssets
      totalFromAssets == calculateTotalFromAssets(list)
      counted == { i \in 1..Len(list) : fallbackValue(list[i]) # undefined }
      valued == { i \in counted : fallbackValue(list[i]) > 0 }
      withUsd == { i \in 1..Len(list) : hasUsdValue(list[i]) }
  IN IF netWorthReasonable(props.netWorth, totalFromAssets)
     THEN [totalValue |-> props.netWorth,
           assetCount |-> IF props.assetBreakdown.totalAssets # 0
                          THEN props.assetBreakdown.totalAssets ELSE Len(list),
           assetsWithValue |-> props.assetBreakdown.assetsWithValue,
           assetsWithoutValue |-> props.assetBreakdown.assetsWithoutValue,
           hasValueData |-> TRUE]
     ELSE IF totalFromAssets > 0
     THEN [totalValue |-> totalFromAssets, assetCount |-> Len(list),
           assetsWithValue |-> Cardinality(withUsd),
           assetsWithoutValue |-> Len(list) - Cardinality(withUsd),
           hasValueData |-> TRUE]
     ELSE IF Len(list) = 0
     THEN [totalValue |-> 0, assetCount |-> 0, assetsWithValue |-> undefined,
           assetsWithoutValue |-> undefined, hasValueData |-> FALSE]
     ELSE [totalValue |-> fallbackTotal(list), assetCount |-> Len(list),
           assetsWithValue |-> Cardinality(valued),
           assetsWithoutValue |-> Cardinality(counted \ valued),
           hasValueData |-> Cardinality(valued) > 0]

\* a render with other props
OptimizerRender(props) ==
  /\ props # optimizerProps
  /\ optimizerProps' = props
  /\ portfolioSummary' = portfolioSummaryOf(props)

NextOptimizer ==
  \/ \E list \in HeldLists : \E worth \in NetWorths : \E breakdown \in Breakdowns :
       OptimizerRender([userAssets |-> list, netWorth |-> worth,
                        assetBreakdown |-> breakdown])
       /\ UNCHANGED besideOptimizer

SpecOptimizer == Init /\ [][NextOptimizer]_vars

(***************************************************************************)
(* InvestmentOpportunities                                                 *)
(***************************************************************************)
\* the tab buttons
Tabs == {"staking", "lending", "wallet-symbols", "optimize"}

\* the children in the tab content for a value of activeTab
tabContent(tab) ==
  (IF tab = "staking" THEN {"StakingData"} ELSE {})
  \cup (IF tab = "lending" THEN {"LendingData"} ELSE {})
  \cup (IF tab = "wallet-symbols" THEN {"WalletSymbols"} ELSE {})
  \cup (IF tab = "optimize" THEN {"PortfolioOptimizer"} ELSE {})

\* a click handler that does not write to sessionStorage
handleTabClickUnsaved(tab) ==
  /\ tabPhase = "mounted"
  /\ Len(tabClicks) < MaxClicks
  /\ activeTab' = tab
  /\ tabClicks' = Append(tabClicks, tab)
  /\ UNCHANGED << savedTab, tabPhase, tabMounts >>

handleTabClick(tab) ==
  /\ tabPhase = "mounted"
  /\ Len(tabClicks) < MaxClicks
  /\ activeTab' = tab
  /\ savedTab' = tab
  /\ tabClicks' = Append(tabClicks, tab)
  /\ UNCHANGED << tabPhase, tabMounts >>

\* the effect of the initial render
TabMountEffect ==
  /\ tabPhase = "rendered"
  /\ tabPhase' = "mounted"
  /\ activeTab' = IF savedTab # "" THEN savedTab ELSE activeTab
  /\ UNCHANGED << savedTab, tabClicks, tabMounts >>

\* the parent stops rendering the component: its state is dropped,
\* sessionStorage stays
TabUnmount ==
  /\ tabPhase = "mounted"
  /\ tabPhase' = "unmounted"
  /\ activeTab' = ""
  /\ UNCHANGED << savedTab, tabClicks, tabMounts >>

\* the parent renders the component again
TabMount ==
  /\ tabPhase = "unmounted"
  /\ tabMounts < MaxTabMounts
  /\ tabPhase' = "rendered"
  /\ activeTab' = "staking"
  /\ tabMounts' = tabMounts + 1
  /\ UNCHANGED << savedTab, tabClicks >>

NextTabs ==
  \/ \E tab \in Tabs : handleTabClick(tab) /\ UNCHANGED besideTabs
  \/ TabMountEffect /\ UNCHANGED besideTabs
  \/ TabUnmount /\ UNCHANGED besideTabs
  \/ TabMount /\ UNCHANGED besideTabs

SpecTabs == Init /\ [][NextTabs]_vars

(***************************************************************************)
(* WalletSymbols                                                           *)
(***************************************************************************)
\* the symbols of the assets the parent may pass
SymbolLists == { <<>>, <<"ETH">>, <<"XYZ">>, <<"ETH", "XYZ">>, <<"DAI", "DAI">> }

NoPriceForAny == "Failed to fetch price data for any tokens"

\* symbols.slice(i, i + batchSize)
symbolBatch(symbols, i) == SubSeq(symbols, i + 1, Min(i + batchSize, Len(symbols)))

\* fetchStatus after setFetchStatus(prev => ({ ...prev, ...update }))
merged(update, prev) == update @@ prev

\* the end of fetchPrices once fetchTokenPrices has returned successCount
fetchPricesEnd(symbols, successCount, errorNow) ==
  /\ symbolsError' = IF successCount = 0 /\ Len(symbols) > 0 THEN NoPriceForAny ELSE errorNow
  /\ symbolsIsLoading' = FALSE

\* fetchTokenPrices up to its first await, or to its return on a cache entry
\* less than two minutes old
fetchTokenPrices(symbols) ==
  IF symbolsCache.present /\ symbolsNow - symbolsCache.timestamp < SYMBOLS_CACHE_TTL
  THEN /\ tokenPrices' = symbolsCache.prices
       /\ fetchStatus' = [s \in Range(symbols) |->
                            IF s \in DOMAIN symbolsCache.prices THEN "success" ELSE "error"]
       /\ fetchPricesEnd(symbols, Cardinality(DOMAIN symbolsCache.prices), "")
       /\ pricesFrom' = "cache"
       /\ UNCHANGED << symbolsCache, symbolsCalls >>
  ELSE /\ symbolsIsLoading' = TRUE
       /\ symbolsError' = ""
       /\ fetchStatus' = IF symbols = <<>> THEN fetchStatus
                          ELSE merged([s \in Range(symbolBatch(symbols, 0)) |-> "loading"],
                                      fetchStatus)
       /\ symbolsCalls' = Append(symbolsCalls,
                                 [symbols |-> symbols,
                                  newPrices |-> IF symbolsCache.present THEN symbolsCache.prices
                                                ELSE <<>>,
                                  successCount |-> 0, i |-> 0])
       /\ UNCHANGED << tokenPrices, symbolsCache, pricesFrom >>

\* the effect on [userAssets]
SymbolsAssetsChange(list) ==
  /\ symbolsRuns < MaxSymbolRuns
  /\ symbolsRuns' = symbolsRuns + 1
  /\ symbolsAssets' = list
  /\ IF Len(list) = 0
     THEN UNCHANGED << tokenPrices, symbolsIsLoading, symbolsError, fetchStatus, symbolsCache,
                       symbolsCalls, pricesFrom >>
     ELSE fetchTokenPrices(uniqueInOrder(list))
  /\ UNCHANGED symbolsNow

\* /api/prices answers, or the request fails: the rest of the batch loop and,
\* after the last batch, of fetchTokenPrices and fetchPrices
SymbolsResponse(c, ok) ==
  LET call == symbolsCalls[c]
      batch == Range(symbolBatch(call.symbols, call.i))
      priced == IF ok THEN { s \in batch : s \in CmcListed } ELSE {}
      newPrices == [s \in priced |-> [price |-> ProxyPrice(s)]] @@ call.newPrices
      successCount == call.successCount + Cardinality(priced)
      status == merged([s \in batch |-> IF s \in priced THEN "success" ELSE "error"],
                       fetchStatus)
      next == call.i + batchSize
  IN IF next < Len(call.symbols)
     THEN /\ fetchStatus' = merged([s \in Range(symbolBatch(call.symbols, next)) |-> "loading"],
                                   status)
          /\ symbolsCalls' = [symbolsCalls EXCEPT ![c] =
                                [call EXCEPT !.newPrices = newPrices,
                                             !.successCount = successCount, !.i = next]]
          /\ UNCHANGED << symbolsAssets, tokenPrices, symbolsIsLoading, symbolsError,
                          symbolsCache, symbolsNow, symbolsRuns, pricesFrom >>
     ELSE /\ fetchStatus' = status
          /\ tokenPrices' = newPrices
          /\ symbolsCache' = [present |-> TRUE, prices |-> newPrices, timestamp |-> symbolsNow]
          /\ fetchPricesEnd(call.symbols, successCount, symbolsError)
          /\ symbolsCalls' = without(symbolsCalls, c)
          /\ pricesFrom' = "proxy"
          /\ UNCHANGED << symbolsAssets, symbolsNow, symbolsRuns >>

SymbolsTick ==
  /\ symbolsNow < MaxSymbolsTime
  /\ symbolsCalls = <<>>
  /\ symbolsNow' = symbolsNow + 1
  /\ UNCHANGED << symbolsAssets, tokenPrices, symbolsIsLoading, symbolsError, fetchStatus,
                  symbolsCache, symbolsCalls, symbolsRuns, pricesFrom >>

\* what WalletSymbols shows: the message of the screen, "" for the list with prices
symbolsRender ==
  IF Len(symbolsAssets) = 0 THEN "No assets found in wallet"
  ELSE IF symbolsIsLoading THEN "Loading price data..."
  ELSE symbolsError

NextSymbols ==
  \/ \E list \in SymbolLists : SymbolsAssetsChange(list) /\ UNCHANGED besideSymbols
  \/ \E c \in 1..Len(symbolsCalls) : \E ok \in BOOLEAN :
       SymbolsResponse(c, ok) /\ UNCHANGED besideSymbols
  \/ SymbolsTick /\ UNCHANGED besideSymbols

SpecSymbols == Init /\ [][NextSymbols]_vars

(***************************************************************************)
(* Properties                                                              *)
(***************************************************************************)

\* C1: the fetch effect starts a load only on mount (no load started before)
\* or for an address other than the one the previous load was started for;
\* in particular the re-run caused by setInitialFetchDone(true) starts none.
C1_LoadOnlyOnMountOrAddressChange ==
  [][Len(loads') > Len(loads) =>
       (loads = <<>> \/ loads[Len(loads)].address # address)]_vars

\* C2: once isRateLimited is true it stays true and no step starts another
\* fetchAssets load, whatever re-render or address change happens.
C2_NoLoadOnceRateLimited ==
  [][isRateLimited => (isRateLimited' /\ Len(loads') = Len(loads))]_vars

\* the address was changed under a rate limit, the effect has run, and no
\* load exists for the new address
C2_AddressChangedUnderRateLimit ==
  /\ isRateLimited
  /\ ~EffectPending
  /\ loads # <<>>
  /\ \A l \in LoadIds : loads[l].address # address

\* C3: once isRateLimited is true no load, in flight or new, issues another
\* request to Etherscan, the RPC provider or the price proxy.
C3_NoRequestOnceRateLimited ==
  [][isRateLimited =>
       /\ Len(loads') = Len(loads)
       /\ \A l \in LoadIds : loads'[l].requests = loads[l].requests]_vars

\* C4: a load that completed with a fetched ETH balance passes to
\* onAssetsLoaded an ETH record carrying that balance, valued at balance x ETH
\* price, and gives updateNetWorth the sum of the usdValue of ETH and of its
\* tokens.
C4_EthRecordCarriesFetchedBalance ==
  \A l \in LoadIds :
    LET L == loads[l]
    IN (L.pc = "done" /\ L.balance # "Error") =>
         LET eth == L.passedAssets[1]
             fetchedValue == IF "ETH" \in DOMAIN L.prices
                             THEN parsedFloat(L.balance) * L.prices["ETH"].price ELSE 0
             tokenValues == [k \in 1..(Len(L.passedAssets) - 1) |-> L.passedAssets[k + 1].usdValue]
         IN /\ eth.balance = L.balance
            /\ eth.usdValue = fetchedValue
            /\ L.passedNetWorth = fetchedValue + sumValues(tokenValues)

\* the known strings that match a URL pattern, and those blank after trimming
UrlNamed == { s \in KnownStrings : matchesUrlPattern(s) }
Blank == { s \in KnownStrings : trimmed(s) = "" }
urlNamed(s) == IF s \in KnownStrings THEN s \in UrlNamed ELSE matchesUrlPattern(s)
blank(s) == IF s \in KnownStrings THEN s \in Blank ELSE trimmed(s) = ""

\* a record whose symbol and name match no URL pattern and whose symbol is
\* not blank
cleanRecord(asset) ==
  /\ ~urlNamed(asset.symbol)
  /\ ~urlNamed(asset.name)
  /\ ~blank(asset.symbol)

\* C5: no record of assets, of userAssets or of any list handed to
\* onAssetsLoaded has a symbol or name matching the URL pattern, or a symbol
\* that is empty after trimming.
C5_NoSpamTokenShown ==
  /\ \A k \in 1..Len(assets) : cleanRecord(assets[k])
  /\ \A k \in 1..Len(userAssets) : cleanRecord(userAssets[k])
  /\ \A l \in LoadIds : \A k \in 1..Len(loads[l].passedAssets) :
       cleanRecord(loads[l].passedAssets[k])

\* a load whose transaction list held a URL-named token has completed with
\* tokens taken from the session-storage batch cache
C5_CachedLoadOfSpammedWallet ==
  \E l \in LoadIds :
    LET L == loads[l]
    IN /\ L.pc = "done"
       /\ Len(L.passedAssets) > 1
       /\ assets # <<>>
       /\ \E k \in 1..Len(L.tokenTxs) : matchesUrlPattern(L.tokenTxs[k].tokenSymbol)
       /\ \A k \in 1..Len(L.requests) : L.requests[k].kind # "balance"

NonRateLimitOutcomes == {"timeout", "notok"}

freshCachedTokens(wallet) ==
  LET key == "token-balances-" \o wallet
  IN /\ hasItem(sessionStorage, key)
     /\ now - sessionStorage[key].timestamp < CACHE_EXPIRY
     /\ validBalancesOf(sessionStorage[key].balances) # <<>>

\* C7: a load that gets past its Etherscan request with a rate limit (an
\* empty transaction list) while unexpired cached token balances exist for the
\* wallet goes on with the cached tokens, not with an empty token list.
C7_RateLimitFallsBackToCachedTokens ==
  [][\A l \in LoadIds :
       ( /\ loads[l].pc = "parallel"
         /\ loads'[l].pc \notin {"parallel", "error"}
         /\ loads'[l].tokenTxs = <<>>
         /\ freshCachedTokens(loads[l].address) )
       => loads'[l].validBalances # <<>>]_vars

\* C8: a price batch in which the proxy answered a request with HTTP 429
\* leaves isRateLimited true.
C8_Http429SetsRateLimited ==
  [][\A l \in LoadIds : \A outcomes \in [pendingSymbols(loads[l]) -> PriceOutcomes] :
       (PriceBatchResponse(l, outcomes) /\ \E sym \in DOMAIN outcomes : outcomes[sym] = "http429")
       => isRateLimited']_vars

\* C9: failures of balance and price requests are isolated.  A load ends in
\* the error state only through its Etherscan request; in a completed load
\* every balance request has its result in tokenBalances, a failed token is in
\* no list, every token fetched with a positive balance is passed on with that
\* balance and its value, every price received is in the load's prices, and a
\* symbol without price is valued at 0.
C9_FailuresAreIsolated ==
  \A l \in LoadIds :
    LET L == loads[l]
        shown == SubSeq(L.passedAssets, 2, Len(L.passedAssets))
    IN /\ L.pc = "error" => (~L.txSettled /\ L.tokenBalances = <<>>)
       /\ L.pc = "done" =>
            /\ \A r \in 1..Len(L.requests) :
                 L.requests[r].kind = "balance" =>
                   \E k \in 1..Len(L.tokenBalances) :
                     lowerCased(L.tokenBalances[k].address) = L.requests[r].key
            /\ \A k \in 1..Len(L.tokenBalances) :
                 LET tok == L.tokenBalances[k]
                 IN IF tok.error
                    THEN \A j \in 1..Len(shown) : shown[j].address # tok.address
                    ELSE parsedFloat(tok.balance) > 0 =>
                           \E j \in 1..Len(shown) :
                             /\ shown[j].address = tok.address
                             /\ shown[j].balance = tok.balance
                             /\ shown[j].usdValue =
                                  IF tok.symbol \in DOMAIN L.prices
                                  THEN parsedFloat(tok.balance) * L.prices[tok.symbol].price
                                  ELSE 0
            /\ \A sym \in DOMAIN L.priceResults : L.prices[sym] = L.priceResults[sym]
            /\ \A j \in 1..Len(L.passedAssets) :
                 L.passedAssets[j].symbol \notin DOMAIN L.prices => L.passedAssets[j].usdValue = 0

\* a load has completed with one token's balance request failed and another
\* token delivered
C9_OneTokenFailedOtherDelivered ==
  \E l \in LoadIds :
    LET L == loads[l]
    IN /\ L.pc = "done"
       /\ \E k \in 1..Len(L.tokenBalances) : L.tokenBalances[k].error
       /\ Len(L.passedAssets) > 1

\* C10: within one load no request is issued twice.
C10_NoRequestIssuedTwice ==
  \A l \in LoadIds :
    \A i, j \in 1..Len(loads[l].requests) :
      i # j => loads[l].requests[i] # loads[l].requests[j]

\* a load has completed although one of its requests failed, having issued
\* its ETH, Etherscan, balance and price requests
C10_CompletedAfterFailure ==
  \E l \in LoadIds :
    LET L == loads[l]
    IN /\ L.pc = "done"
       /\ failures > 0
       /\ \E k \in 1..Len(L.tokenBalances) : L.tokenBalances[k].error
       /\ { L.requests[k].kind : k \in 1..Len(L.requests) } = {"eth", "tokentx", "balance", "price"}

\* the balance requests a load is waiting for
pendingBalanceKeys(L) == { req.key : req \in { r \in L.pending : r.kind = "balance" } }

\* the keys a load has requested a balance for, in the order of the requests
requestedKeys(L) ==
  LET balanceRequests == SelectSeq(L.requests, LAMBDA r : r.kind = "balance")
  IN [k \in 1..Len(balanceRequests) |-> balanceRequests[k].key]

\* C11: a load never waits for more than TOKEN_BATCH_SIZE balance requests;
\* the requests it waits for all belong to the current chunk, and by then
\* every token of the earlier chunks has its result in tokenBalances; no
\* token is requested twice, and once the loop is over the results are those
\* of the sorted tokens, one each, in order.
C11_BalancesInChunksOfFive ==
  \A l \in LoadIds :
    LET L == loads[l]
        chunkKeys == { batchOf(L)[k].key : k \in 1..Len(batchOf(L)) }
    IN /\ Cardinality(pendingBalanceKeys(L)) <= TOKEN_BATCH_SIZE
       /\ \A i, j \in 1..Len(requestedKeys(L)) :
            i # j => requestedKeys(L)[i] # requestedKeys(L)[j]
       /\ L.pc = "balances" =>
            /\ pendingBalanceKeys(L) \subseteq chunkKeys
            /\ Len(L.tokenBalances) = L.i
            /\ \A k \in 1..L.i : lowerCased(L.tokenBalances[k].address) = L.sortedTokens[k].key
       /\ L.pc = "tokenDelay" =>
            /\ pendingBalanceKeys(L) = {}
            /\ Len(L.tokenBalances) = L.i + TOKEN_BATCH_SIZE
       /\ (L.pc \in {"prices", "priceDelay", "done"} /\ L.sortedTokens # <<>>) =>
            /\ Len(L.tokenBalances) = Len(L.sortedTokens)
            /\ \A k \in 1..Len(L.sortedTokens) :
                 lowerCased(L.tokenBalances[k].address) = L.sortedTokens[k].key

\* a load waits for the only request of its second chunk, the five results of
\* the first chunk being in
C11_SecondChunkInFlight ==
  \E l \in LoadIds :
    /\ loads[l].pc = "balances"
    /\ loads[l].i = TOKEN_BATCH_SIZE
    /\ Len(loads[l].tokenBalances) = TOKEN_BATCH_SIZE
    /\ pendingBalanceKeys(loads[l]) # {}
    /\ Len(requestedKeys(loads[l])) > TOKEN_BATCH_SIZE

\* position of a symbol in the priority list, -1 when it is not in it
priorityIndex(symbol) ==
  IF \E i \in 1..Len(priorityTokens) : priorityTokens[i] = symbol
  THEN (CHOOSE i \in 1..Len(priorityTokens) : priorityTokens[i] = symbol) - 1
  ELSE -1

\* a list of symbols has the priority symbols first, in the order of the list
priorityOrdered(symbols) ==
  \A i, j \in 1..Len(symbols) :
    (i < j /\ priorityIndex(symbols[j]) # -1) =>
      /\ priorityIndex(symbols[i]) # -1
      /\ priorityIndex(symbols[i]) <= priorityIndex(symbols[j])

\* C12: in the order in which a load goes through its tokens, and so in the
\* order of its balance requests, tokens with a symbol of the priority list
\* come before all others and are ordered by their position in that list.
C12_PriorityTokensFirst ==
  \A l \in LoadIds :
    LET L == loads[l]
    IN /\ priorityOrdered([k \in 1..Len(L.sortedTokens) |-> L.sortedTokens[k].symbol])
       /\ priorityOrdered([k \in 1..Len(requestedKeys(L)) |->
                             tokenAt(L.sortedTokens, requestedKeys(L)[k]).symbol])

\* a load has requested the balances of two chunks for a wallet whose
\* transaction list has a token outside the priority list first
C12_ReorderedRequests ==
  \E l \in LoadIds :
    LET L == loads[l]
    IN /\ Len(requestedKeys(L)) > TOKEN_BATCH_SIZE
       /\ priorityIndex(L.uniqueTokens[1].symbol) = -1
       /\ priorityIndex(L.sortedTokens[1].symbol) = 0
       /\ \E k \in 1..Len(L.sortedTokens) : priorityIndex(L.sortedTokens[k].symbol) = -1

\* the step in which load l completes
completes(l) == loads[l].pc # "done" /\ loads'[l].pc = "done"

\* C13: the step that completes a load stores in assets the tokens of the
\* load whose balance was fetched without error and is positive, each once,
\* ordered by usdValue from highest to lowest, and no ETH record.
C13_AssetsSortedTokensOnly ==
  [][\A l \in LoadIds : completes(l) =>
       LET results == loads'[l].tokenBalances
           positive == { k \in 1..Len(results) :
                           ~results[k].error /\ parsedFloat(results[k].balance) > 0 }
       IN /\ \A k \in 1..(Len(assets') - 1) : assets'[k].usdValue >= assets'[k + 1].usdValue
          /\ \A k \in 1..Len(assets') :
               /\ "address" \in DOMAIN assets'[k]
               /\ assets'[k].symbol # "ETH"
               /\ \E r \in positive :
                    /\ results[r].address = assets'[k].address
                    /\ results[r].balance = assets'[k].balance
          /\ \A r \in positive : \E k \in 1..Len(assets') : assets'[k].address = results[r].address
          /\ Len(assets') = Cardinality(positive)]_vars

\* the tokens of a completed load are shown in another order than their
\* balances arrived in, the most valuable first
C13_TokensReordered ==
  \E l \in LoadIds :
    LET L == loads[l]
    IN /\ L.pc = "done"
       /\ Len(assets) >= 3
       /\ Len(L.validBalances) = Len(assets)
       /\ \A k \in 1..Len(assets) : assets[k] = withUsdValue(assets[k], L.prices)
       /\ assets[1].address # L.validBalances[1].address
       /\ assets[1].usdValue > assets[Len(assets)].usdValue

\* C14: every record of assets, of userAssets and of every list handed to
\* onAssetsLoaded, the ETH record included, has a balance that is a number
\* and not negative.
C14_BalancesNumericNonNegative ==
  LET numeric(asset) == ~isNaN(parsedFloat(asset.balance)) /\ parsedFloat(asset.balance) >= 0
  IN /\ \A k \in 1..Len(assets) : numeric(assets[k])
     /\ \A k \in 1..Len(userAssets) : numeric(userAssets[k])
     /\ \A l \in LoadIds : \A k \in 1..Len(loads[l].passedAssets) :
          numeric(loads[l].passedAssets[k])

\* the sum of a list of numbers
RECURSIVE total(_)
total(numbers) == IF numbers = <<>> THEN 0 ELSE Head(numbers) + total(Tail(numbers))

\* C15: the step that completes a load leaves in the context a breakdown
\* with totalAssets = 1 + number of valid tokens = assetsWithValue +
\* assetsWithoutValue, where assetsWithValue counts the records whose usdValue
\* is a number other than 0, and a netWorth that is the sum of the usdValue of
\* exactly those records and the value the load passed to updateNetWorth.
C15_BreakdownAndNetWorthAgree ==
  [][\A l \in LoadIds : completes(l) =>
       LET passed == loads'[l].passedAssets
           counted == SelectSeq(passed, LAMBDA a : a.usdValue # 0 /\ a.usdValue # NaN)
       IN /\ assetBreakdown'.totalAssets = 1 + Len(loads'[l].validBalances)
          /\ assetBreakdown'.totalAssets = Len(passed)
          /\ assetBreakdown'.assetsWithValue + assetBreakdown'.assetsWithoutValue
               = assetBreakdown'.totalAssets
          /\ assetBreakdown'.assetsWithValue = Len(counted)
          /\ DOMAIN assetBreakdown' = {"totalAssets", "assetsWithValue", "assetsWithoutValue"}
          /\ netWorth' = total([k \in 1..Len(counted) |-> counted[k].usdValue])
          /\ netWorth' = loads'[l].passedNetWorth]_vars

\* updateNetWorth has been called for a load with tokens of which some have
\* a value and some (or the ETH record) have none
C15_MixedBreakdown ==
  /\ assetBreakdown.assetsWithValue >= 2
  /\ assetBreakdown.assetsWithoutValue >= 1
  /\ netWorth > 0
  /\ \E l \in LoadIds : loads[l].pc = "done" /\ loads[l].passedNetWorth = netWorth

\* C16: every price a load took from the session-storage price cache for one
\* of its symbols had arrived from the proxy less than PRICE_CACHE_TTL before
\* the load read the cache.
C16_CachedPricesAreFresh ==
  \A l \in LoadIds :
    \A sym \in DOMAIN loads[l].cachedPrices :
      loads[l].pricesAt - loads[l].cachedPrices[sym].receivedAt < PRICE_CACHE_TTL

\* the results a load holds for its current batch and for the batches before
resultsOf(L) ==
  L.tokenBalances \o
    (IF L.pc = "balances"
     THEN LET settled == SelectSeq(batchOf(L), LAMBDA tok : tok.key \in DOMAIN L.batchResults)
          IN [k \in 1..Len(settled) |-> L.batchResults[settled[k].key]]
     ELSE <<>>)

\* C17: a result that a load holds without having requested it is an entry
\* of the in-memory cache stored for the load's wallet and the token, less
\* than CACHE_EXPIRY old when the load read it; every token of the current
\* batch is either requested or answered that way; and the cache holds only
\* successful results, under the key of their wallet and token.
C17_MemoryCacheFreshAndKeyed ==
  /\ \A l \in LoadIds :
       LET L == loads[l]
       IN (L.sortedTokens # <<>> /\ Len(L.sortedTokens) <= TOKEN_BATCH_SIZE) =>
            /\ \A k \in 1..Len(resultsOf(L)) :
                 LET r == resultsOf(L)[k]
                     key == lowerCased(r.address)
                 IN key \notin Range(requestedKeys(L)) =>
                      /\ ~r.error
                      /\ L.balancesAt - r.cacheTime < CACHE_EXPIRY
                      /\ r.balance = formatUnits(ChainTokenBalance(L.address, key))
            /\ \A k \in 1..Len(L.sortedTokens) :
                 \/ L.sortedTokens[k].key \in Range(requestedKeys(L))
                 \/ \E j \in 1..Len(resultsOf(L)) :
                      lowerCased(resultsOf(L)[j].address) = L.sortedTokens[k].key
  /\ \A cacheKey \in DOMAIN globalTokenBalanceCache :
       LET entry == globalTokenBalanceCache[cacheKey]
       IN /\ ~entry.error
          /\ entry.balance # "Error"
          /\ entry.cacheTime <= now
          /\ \E wallet \in Wallets :
               /\ cacheKey = cacheKeyOf(wallet, lowerCased(entry.address))
               /\ entry.balance = formatUnits(ChainTokenBalance(wallet, lowerCased(entry.address)))

\* a load waits for the balance of a token whose cache entry has expired,
\* while the token whose request failed earlier has no entry
C17_ExpiredEntryRequestedAgain ==
  \E l \in LoadIds :
    LET L == loads[l]
    IN /\ L.pc = "balances"
       /\ failures > 0
       /\ \E key \in pendingBalanceKeys(L) :
            /\ cacheKeyOf(L.address, key) \in DOMAIN globalTokenBalanceCache
            /\ now - globalTokenBalanceCache[cacheKeyOf(L.address, key)].cacheTime >= CACHE_EXPIRY
       /\ \E k \in LoadIds : \E j \in 1..Len(loads[k].tokenBalances) :
            /\ loads[k].tokenBalances[j].error
            /\ cacheKeyOf(loads[k].address, lowerCased(loads[k].tokenBalances[j].address))
                 \notin DOMAIN globalTokenBalanceCache

\* C18 as stated: within one minute (here: at one instant, which stands for
\* any stretch shorter than a minute) no more than 25 requests pass the limiter
C18_AtMost25InAnyMinute == passedNow <= MAX_REQUESTS_PER_WINDOW

\* C18: no more than MAX_REQUESTS_PER_WINDOW (25) requests pass the rateLimiter
\* middleware between two consecutive resets of its counter, however request
\* arrivals and the reset timer interleave; a request that finds the counter
\* at 25 is answered 429
C18_AtMost25BetweenResets ==
  [][ /\ passedSinceReset' <= MAX_REQUESTS_PER_WINDOW
      /\ requestCount' <= MAX_REQUESTS_PER_WINDOW
      /\ (HealthRequest /\ lastReply'.status = 429)
           => /\ passedSinceReset = MAX_REQUESTS_PER_WINDOW
              /\ passedSinceReset' = MAX_REQUESTS_PER_WINDOW
      /\ (HealthRequest /\ lastReply'.status = 200)
           => passedSinceReset < MAX_REQUESTS_PER_WINDOW ]_vars

\* the 26th request of a window was turned away
C18_RequestTurnedAway ==
  /\ lastReply.endpoint = "health"
  /\ lastReply.status = 429
  /\ passedSinceReset = MAX_REQUESTS_PER_WINDOW
  /\ proxyNow > 0

young(key) ==
  key \in DOMAIN proxyCache /\ proxyNow - proxyCache[key].timestamp < CACHE_DURATION

upperCaseOf(symbols) == { toUpperCase(symbols[i]) : i \in 1..Len(symbols) }

qualifies(p) ==
  LET apy == IF p.apy # undefined THEN p.apy ELSE p.apr
      protocol == IF p.project # "" THEN p.project ELSE p.protocol
  IN /\ apy # undefined /\ apy > MIN_APY
     /\ toLowerCase(p.chain) = "ethereum"
     /\ protocol \in LENDING_PROTOCOLS

\* what lendingData holds against the pools of the response it was set from
storedAsClaimed ==
  /\ \A i \in 1..Len(lendingData) :
       /\ lendingData[i].apy > MIN_APY
       /\ toLowerCase(lendingData[i].chain) = "ethereum"
       /\ lendingData[i].protocol \in LENDING_PROTOCOLS
  /\ \A i, j \in 1..Len(lendingData) : i < j => lendingData[i].apy >= lendingData[j].apy
  /\ \A k \in 1..Len(lendingSource.pools) :
       qualifies(lendingSource.pools[k]) =>
         \E i \in 1..Len(lendingData) :
           /\ lendingData[i].symbol = lendingSource.pools[k].symbol
           /\ lendingData[i].chain = lendingSource.pools[k].chain

\* C20: the entries stored in lendingData from a network response all have
\* apy > 0.01, chain 'ethereum' ignoring case and a protocol of
\* LENDING_PROTOCOLS, the list is sorted by apy from highest to lowest, and
\* every pool of the response meeting the three conditions has its entry
C20_StoredPoolsAreTheLendingPools ==
  lendingSource.from = "network" => storedAsClaimed

\* the same holds of the answers that carry their pools under data or pools
KeyedAnswersStoredAsClaimed ==
  (lendingSource.from = "network" /\ lendingSource.shape # "array") => storedAsClaimed

\* C21: after a failed lending request that fell back to a cached entry older
\* than 15 minutes, the table on screen holds the cached opportunities and the
\* notice that cached data is used is shown
C21_FallbackShowsCachedTable ==
  (/\ lendingError = "Using cached data. Latest data could not be fetched."
   /\ ~lendingIsLoading
   /\ lendingData # <<>>)
    => /\ lendingRender.screen = "table"
       /\ lendingRender.rows = lendingData

\* the first transaction of the list carrying the address (lower-cased)
firstOf(a) ==
  listedTxs[CHOOSE i \in 1..Len(listedTxs) :
             /\ listedTxs[i].contractAddress # ""
             /\ lowerCased(listedTxs[i].contractAddress) = a
             /\ \A j \in 1..(i - 1) : lowerCased(listedTxs[j].contractAddress) # a]

distinctAddresses ==
  { lowerCased(listedTxs[i].contractAddress) :
      i \in { k \in 1..Len(listedTxs) : listedTxs[k].contractAddress # "" } }

urlClass(tx) == matchesUrlPattern(tx.tokenSymbol) \/ matchesUrlPattern(tx.tokenName)
noSymbolClass(tx) == ~urlClass(tx) /\ trimmed(tx.tokenSymbol) = ""

\* C26: every distinct lower-cased contract address is classified once, by
\* its first transaction: the two counters and the returned tokens add up to
\* the number of distinct addresses, a URL match counts as URL-filtered even
\* when the symbol is missing, and later transactions of the address do not
\* count
C26_EachAddressClassifiedOnce ==
  classified.done =>
    LET tokens == classified.uniqueTokens
    IN /\ classified.urlFiltered + classified.symbolFiltered + Len(tokens)
            = Cardinality(distinctAddresses)
       /\ classified.urlFiltered
            = Cardinality({ a \in distinctAddresses : urlClass(firstOf(a)) })
       /\ classified.symbolFiltered
            = Cardinality({ a \in distinctAddresses : noSymbolClass(firstOf(a)) })
       /\ \A i, j \in 1..Len(tokens) : tokens[i].key = tokens[j].key => i = j
       /\ \A a \in distinctAddresses :
            (~urlClass(firstOf(a)) /\ ~noSymbolClass(firstOf(a)))
              <=> \E i \in 1..Len(tokens) :
                    /\ tokens[i].key = a
                    /\ tokens[i].address = firstOf(a).contractAddress
                    /\ tokens[i].symbol = firstOf(a).tokenSymbol

\* a list was classified in which an address first seen with a URL comes
\* again with a good symbol, and another address has a blank symbol and a URL
\* in its name
C26_RepeatedAndBlankWithUrl ==
  /\ classified.done
  /\ Len(listedTxs) = 3
  /\ urlClass(listedTxs[1]) /\ listedTxs[1].contractAddress = "0xAA"
  /\ ~urlClass(listedTxs[2]) /\ listedTxs[2].tokenSymbol = "USDC"
  /\ listedTxs[2].contractAddress = "0xaa"
  /\ listedTxs[3].contractAddress = "0xBB" /\ listedTxs[3].tokenSymbol = " "
  /\ urlClass(listedTxs[3])
  /\ classified.urlFiltered = 2

windowOpen == ~(proxyNow - windowStart > RATE_LIMIT_WINDOW)

turnedAway ==
  /\ lastReply'.status = 429
  /\ lastReply'.body = <<>>
  /\ requestCount' = requestCount
  /\ upstream' = upstream
  /\ proxyCache' = proxyCache

costsOneUnit(arrival) ==
  arrival =>
    IF requestCount = MAX_REQUESTS_PER_WINDOW /\ windowOpen
    THEN turnedAway
    ELSE /\ requestCount' = (IF windowOpen THEN requestCount ELSE 0) + 1
         /\ \/ lastReply'.status # 429
            \/ lastReply' = lastReply

\* C27: requestCount never exceeds MAX_REQUESTS_PER_WINDOW; a request that
\* finds the counter at the maximum is answered 429, leaves the counter as
\* it is and reaches neither a route handler (no cache lookup, no cache
\* write) nor the upstream API; every other request, to /health, answered
\* from the cache or sent upstream, raises the counter by one
C27_EveryRouteCountedAndCapped ==
  [][ /\ requestCount' <= MAX_REQUESTS_PER_WINDOW
      /\ costsOneUnit(HealthRequest)
      /\ \A symbol \in RequestSymbols : costsOneUnit(PriceRequest(symbol))
      /\ \A symbols \in RequestLists : costsOneUnit(PricesRequest(symbols)) ]_vars

\* a price request was turned away although the cache holds a fresh quote of
\* its symbol
C27_TurnedAwayDespiteCache ==
  /\ lastReply.endpoint = "price"
  /\ lastReply.status = 429
  /\ requestCount = MAX_REQUESTS_PER_WINDOW
  /\ young(toUpperCase(lastReply.requested[1]))
  /\ upstream = <<>>

\* C22: every row StakingData displays carries the symbol, ignoring case, of
\* one of the user's assets; without user assets no row is displayed; and
\* among the displayed rows of one asset at least one is marked highest APR
C22_RowsAreTheUsersAssets ==
  LET rows == stakingRender.rows
      owned == stakingProps.userAssets
  IN /\ \A i \in 1..Len(rows) :
          \E k \in 1..Len(owned) :
            lowerCased(rows[i].asset) = lowerCased(owned[k].symbol)
     /\ owned = <<>> => rows = <<>>
     /\ \A i \in 1..Len(rows) :
          \E j \in 1..Len(rows) : rows[j].asset = rows[i].asset /\ rows[j].isHighestApr

\* with ETH among the user's assets two ETH rows are displayed, the one of
\* the higher APR marked, the other not
C22_TwoRowsOneMarked ==
  LET rows == stakingRender.rows
  IN /\ Len(rows) = 2
     /\ rows[1].asset = "ETH" /\ rows[1].isHighestApr
     /\ rows[2].asset = "ETH" /\ ~rows[2].isHighestApr
     /\ \E k \in 1..Len(stakingProps.userAssets) : stakingProps.userAssets[k].symbol = "ETH"

\* the sum of the usdValue of the assets that carry one
usdSum == total([i \in 1..Len(optimizerProps.userAssets) |->
                  LET v == optimizerProps.userAssets[i].usdValue
                  IN IF v = undefined \/ v = NaN THEN 0 ELSE v])

\* what balance and price (or the usdValue, where the asset has one) give an
\* asset whose balance is a positive number
valueByBalance(asset) ==
  IF asset.balance \in {"", "Error"} \/ parsedFloat(asset.balance) = NaN
     \/ parsedFloat(asset.balance) <= 0 THEN 0
  ELSE IF asset.usdValue \notin {undefined, NaN} THEN asset.usdValue
  ELSE IF asset.price = undefined THEN 0
  ELSE parsedFloat(asset.balance) * asset.price

\* C23: the total value is the global netWorth when netWorth > 0 and the sum
\* of the assets' usdValue is 0 or less than 10% of netWorth away from it;
\* otherwise it is that sum when the sum is > 0; otherwise it is the total
\* computed from each asset's balance and price, and then hasValueData is
\* false when no asset has a positive value
C23_TotalValueByCase ==
  LET worth == optimizerProps.netWorth
      list == optimizerProps.userAssets
      distance == IF worth > usdSum THEN worth - usdSum ELSE usdSum - worth
      byBalance == [i \in 1..Len(list) |-> valueByBalance(list[i])]
  IN IF worth > 0 /\ (usdSum = 0 \/ 10 * distance < worth)
     THEN portfolioSummary.totalValue = worth
     ELSE IF usdSum > 0
     THEN portfolioSummary.totalValue = usdSum
     ELSE /\ portfolioSummary.totalValue = total(byBalance)
          /\ (\A i \in 1..Len(list) : byBalance[i] <= 0) => ~portfolioSummary.hasValueData

\* the sum of the assets' values is exactly 10% below netWorth and is shown
C23_SumShownAtTenPercent ==
  /\ optimizerProps.netWorth = 20
  /\ usdSum = 18
  /\ portfolioSummary.totalValue = 18

\* without netWorth and without usdValue the total comes from balance and price
C23_TotalFromBalanceAndPrice ==
  /\ optimizerProps.netWorth = 0
  /\ usdSum = 0
  /\ portfolioSummary.totalValue = 8
  /\ portfolioSummary.hasValueData

\* C24: once a mount of InvestmentOpportunities has run its effect, activeTab
\* is the last tab clicked, whatever was clicked before and however often the
\* component was remounted since; and while the component is on screen
\* activeTab is one of staking, lending, wallet-symbols, optimize and the tab
\* content is the component of that tab alone
C24_ActiveTabIsLastClicked ==
  /\ (tabPhase = "mounted" /\ tabClicks # <<>>) => activeTab = tabClicks[Len(tabClicks)]
  /\ tabPhase # "unmounted" =>
       /\ activeTab \in Tabs
       /\ tabContent(activeTab) =
            { CASE activeTab = "staking" -> "StakingData"
                [] activeTab = "lending" -> "LendingData"
                [] activeTab = "wallet-symbols" -> "WalletSymbols"
                [] activeTab = "optimize" -> "PortfolioOptimizer" }

\* lending, then optimize were clicked, the component went away and came
\* back, and the optimizer is on screen
C24_RemountedOnLastTab ==
  /\ tabClicks = << "lending", "optimize" >>
  /\ tabMounts = 2
  /\ tabPhase = "mounted"
  /\ activeTab = "optimize"

\* fetchTokenPrices has run for the assets on screen and nothing is under way
pricesSettled == symbolsAssets # <<>> /\ symbolsCalls = <<>> /\ ~symbolsIsLoading

\* C25: after fetchTokenPrices, WalletSymbols shows 'Failed to fetch price
\* data for any tokens' exactly when none of the wallet's symbols has a
\* price, whether the prices came from the proxy or from a cache entry
C25_ErrorExactlyWhenNoPrice ==
  pricesSettled =>
    (symbolsRender = NoPriceForAny
       <=> \A s \in Range(symbolsAssets) : s \notin DOMAIN tokenPrices)

\* the load started last
lastLoad == loads[Len(loads)]

\* the address has changed, and the last load is the only one for the
\* connected address: whatever the state holds that this load did not
\* produce, a load for an earlier address has written
soleLoadForAddress ==
  /\ Len(loads) > 1
  /\ lastLoad.address = address
  /\ \A l \in 1..(Len(loads) - 1) : loads[l].address # address

\* C28: when the address changed while a load was in flight and every load
\* has settled, with the load for the connected address completed, the
\* assets, ETH balance, price data and net worth held by WalletAssets, App
\* and WalletContext are those the load for the connected address produced
C28_LateLoadNeverOverwrites ==
  (Idle /\ soleLoadForAddress /\ lastLoad.pc = "done")
    => /\ userAssets = lastLoad.passedAssets
       /\ netWorth = lastLoad.passedNetWorth
       /\ priceData = lastLoad.prices
       /\ ethBalance = lastLoad.balance
       /\ assets = sortByValue(tokensWithValue(lastLoad.validBalances, lastLoad.prices))

====
